---------------------------- MODULE Spec2Model ----------------------------
(***************************************************************************)
(* A model of the corridor generator                                       *)
(* (legacy/backend/kml-corridors/photo_corridor_generator.py).             *)
(*                                                                         *)
(* Geometry.  The generator works on (lon, lat, alt) triples in degrees    *)
(* with double-precision spherical trigonometry.  The model keeps the      *)
(* inputs on the two great circles through (0 deg, 0 deg) on which that    *)
(* trigonometry is exact: the equator (lat = 0) and the prime meridian     *)
(* (lon = 0).  lon and lat are written in metres of arc from (0, 0)        *)
(* (1 m = 1/6371000 rad), so between two points of one of these circles    *)
(* the Haversine distance is the difference of the coordinates and the     *)
(* initial bearing is one of 0, 90, 180, 270.  A point that the direct     *)
(* geodesic formula puts off both circles is kept as the term              *)
(* "dist metres from (lon, lat) along bearing brg".                        *)
(* Angles are whole degrees: on these inputs every bearing is a multiple   *)
(* of 90 and every halved difference a multiple of 45.                     *)
(*                                                                         *)
(* The last sections model the two photo services: the reorder request of  *)
(* backend/main.py and the session requests of                             *)
(* backend/photo-helper/main.py.                                           *)
(***************************************************************************)
EXTENDS Integers, Sequences, FiniteSets

VARIABLES
    pc,                  \* position of the running function
    i,                   \* loop variable of the running function (1-based)
    all_segments,        \* generate_corridors_kml: all_segments
    main_track_segments, \* generate_corridors_kml: main_track_segments
    dashed_connectors,   \* generate_corridors_kml: dashed_connectors
    main_segments,       \* build_detailed_continuous_track: its argument
    sorted_segments,     \* build_detailed_continuous_track: sorted_segments
    detailed_track,      \* build_detailed_continuous_track: detailed_track
    origin,              \* history: for each point of detailed_track, the
                         \* segment index and position it was copied from
    track_coords,        \* argument of the projector and of the locator
    corridor_distance,   \* generate_corridor_for_continuous_track: argument
    left_corridor,       \* generate_corridor_for_continuous_track
    right_corridor,      \* generate_corridor_for_continuous_track
    headings,            \* history: track_bearing of each iteration
    start_index,         \* point_at_distance_along_track: argument
    target_distance_m,   \* point_at_distance_along_track: argument
    remaining,           \* point_at_distance_along_track: remaining
    result,              \* point_at_distance_along_track: returned value
    target_point,        \* find_point_on_track: argument
    min_distance,        \* find_point_on_track: min_distance
    closest_index,       \* find_point_on_track: closest_index, then the
                         \* returned value
    tp_coords,           \* generate_corridors_kml: tp_coords
    coord_string,        \* parse_coordinates: argument, split at whitespace
    parsed,              \* parse_coordinates: coords
    placemarks,          \* generate_corridors_kml: placemarks
    document,            \* generate_corridors_kml: the placemarks of document
    sp_coord,            \* generate_corridors_kml: sp_coord
    distance_markers_created,  \* generate_corridors_kml
    marker_loop,         \* generate_corridors_kml: 0 at the SP stage, then
                         \* the position in tp_coords of the marker loop
    sessions,            \* photo-helper: sessions, the sessions in memory
    disk,                \* photo-helper: the session files of SESSIONS_DIR
    photos_dir,          \* photo-helper: the ids of the photo files of PHOTOS_DIR
    request,             \* photo-helper: the request being served
    response             \* photo-helper: the response to it

classifyVars == <<all_segments, main_track_segments, dashed_connectors>>
buildVars == <<main_segments, sorted_segments, detailed_track, origin>>
corridorVars == <<corridor_distance, left_corridor, right_corridor, headings>>
locateVars == <<start_index, target_distance_m, remaining, result>>

nearestVars == <<target_point, min_distance, closest_index>>
parseVars == <<coord_string, parsed>>
runVars == <<placemarks, document, sp_coord, distance_markers_created, marker_loop>>
photoVars == <<sessions, disk, photos_dir, request, response>>
restVars == <<nearestVars, tp_coords, parseVars, runVars, photoVars>>

vars == <<pc, i, classifyVars, buildVars, track_coords, corridorVars, locateVars, restVars>>

\* Python's None as a returned value; a returned (point, bearing) is a pair
None == <<>>

\* the variables of a function that is not running
ClassifyIdle ==
    all_segments = <<>> /\ main_track_segments = <<>> /\ dashed_connectors = <<>>
BuildIdle ==
    main_segments = <<>> /\ sorted_segments = <<>> /\ detailed_track = <<>> /\ origin = <<>>
CorridorIdle ==
    corridor_distance = 0 /\ left_corridor = <<>> /\ right_corridor = <<>> /\ headings = <<>>
LocateIdle ==
    start_index = 0 /\ target_distance_m = 0 /\ remaining = 0 /\ result = None
NearestIdle ==
    target_point = None /\ min_distance = 0 /\ closest_index = 0
SortIdle ==
    tp_coords = <<>>
ParseIdle ==
    coord_string = <<>> /\ parsed = <<>>
RunIdle ==
    /\ placemarks = <<>> /\ document = <<>> /\ sp_coord = None
    /\ distance_markers_created = 0 /\ marker_loop = 0
PhotoIdle ==
    sessions = <<>> /\ disk = <<>> /\ photos_dir = {} /\ request = None /\ response = None
RestIdle ==
    NearestIdle /\ SortIdle /\ ParseIdle /\ RunIdle /\ PhotoIdle

(***************************************************************************)
(* Bounds of the model.                                                    *)
(***************************************************************************)
MaxSegs == 2      \* segments in one list
MaxSegLen == 2    \* coordinates in one segment
MaxClassified == 2  \* line segments to classify
MaxTrack == 3     \* points of a Track given to the projector or the locator

\* n ranges over the sequences of length at most n over S
SeqsUpTo(S, n) == UNION {[1..k -> S] : k \in 0..n}

Abs(a) == IF a < 0 THEN -a ELSE a

(***************************************************************************)
(* Geodesic math                                                           *)
(***************************************************************************)
OnGrid(c) == "lon" \in DOMAIN c
OnMeridian(c) == OnGrid(c) /\ c.lon = 0
OnEquator(c) == OnGrid(c) /\ c.lat = 0

\* Haversine distance in metres.  On one great circle through (0, 0) it is
\* the difference of the arc coordinates.
calculate_distance(coord1, coord2) ==
    CASE OnMeridian(coord1) /\ OnMeridian(coord2) -> Abs(coord2.lat - coord1.lat)
      [] OnEquator(coord1) /\ OnEquator(coord2) -> Abs(coord2.lon - coord1.lon)

\* Initial bearing in degrees, (degrees(atan2(y, x)) + 360) % 360.  Along the
\* meridian y = 0 and x has the sign of the latitude difference; along the
\* equator x = 0 and y has the sign of the longitude difference; for two
\* equal points atan2(0, 0) = 0.
calculate_bearing(coord1, coord2) ==
    CASE OnMeridian(coord1) /\ OnMeridian(coord2) ->
            IF coord2.lat < coord1.lat THEN 180 ELSE 0
      [] OnEquator(coord1) /\ OnEquator(coord2) ->
            IF coord2.lon > coord1.lon THEN 90
            ELSE IF coord2.lon < coord1.lon THEN 270 ELSE 0

\* The same solution with the altitude set to 0.
project_coordinate_SeaLevel(coord, bearing_deg, distance_m) ==
    CASE distance_m = 0 -> [coord EXCEPT !.alt = 0]
      [] distance_m # 0 /\ OnMeridian(coord) /\ bearing_deg = 0 ->
            [coord EXCEPT !.lat = @ + distance_m, !.alt = 0]
      [] distance_m # 0 /\ OnMeridian(coord) /\ bearing_deg = 180 ->
            [coord EXCEPT !.lat = @ - distance_m, !.alt = 0]
      [] distance_m # 0 /\ OnEquator(coord) /\ bearing_deg = 90 ->
            [coord EXCEPT !.lon = @ + distance_m, !.alt = 0]
      [] distance_m # 0 /\ OnEquator(coord) /\ bearing_deg = 270 ->
            [coord EXCEPT !.lon = @ - distance_m, !.alt = 0]
      [] OTHER ->
            [from |-> coord, brg |-> bearing_deg, dist |-> distance_m,
             alt |-> 0]

\* Direct geodesic solution.  The altitude is that of coord.  Along the
\* circle the point lies on, the arc coordinate moves by distance_m; any
\* other result is off both circles and is kept as a term.
project_coordinate(coord, bearing_deg, distance_m) ==
    CASE distance_m = 0 -> coord
      [] distance_m # 0 /\ OnMeridian(coord) /\ bearing_deg = 0 ->
            [coord EXCEPT !.lat = @ + distance_m]
      [] distance_m # 0 /\ OnMeridian(coord) /\ bearing_deg = 180 ->
            [coord EXCEPT !.lat = @ - distance_m]
      [] distance_m # 0 /\ OnEquator(coord) /\ bearing_deg = 90 ->
            [coord EXCEPT !.lon = @ + distance_m]
      [] distance_m # 0 /\ OnEquator(coord) /\ bearing_deg = 270 ->
            [coord EXCEPT !.lon = @ - distance_m]
      [] OTHER ->
            [from |-> coord, brg |-> bearing_deg, dist |-> distance_m,
             alt |-> coord.alt]

(***************************************************************************)
(* Segment classifier                                                      *)
(***************************************************************************)
DashedMaxLength == 500

is_dashed_connector_line_Inclusive(segment) ==
    LET coords == segment.coordinates
    IN  IF Len(coords) # 2 THEN FALSE
        ELSE calculate_distance(coords[1], coords[2]) <= DashedMaxLength

is_dashed_connector_line(segment) ==
    LET coords == segment.coordinates
    IN  IF Len(coords) # 2 THEN FALSE
        ELSE calculate_distance(coords[1], coords[2]) < DashedMaxLength

(***************************************************************************)
(* Track builder: build_detailed_continuous_track                          *)
(***************************************************************************)
StitchTolerance == 50

\* The points the builder is given: on the prime meridian, 30 m apart, so
\* that neighbours are closer than the tolerance and the outer two are not.
BuildLats == {0, 30, 60}
BuildCoords == [lon : {0}, lat : BuildLats, alt : {0}]

\* A segment: its origin index (position among the input's placemarks) and
\* its coordinates.
Segment(index, coordinates) == [index |-> index, coordinates |-> coordinates]

Injective(f) == \A a, b \in DOMAIN f : a # b => f[a] # f[b]

\* sorted(main_segments, key=lambda x: x['index']): a stable insertion sort
RECURSIVE InsertByIndex(_, _)
InsertByIndex(seg, sorted) ==
    IF sorted = <<>> THEN <<seg>>
    ELSE IF seg.index < Head(sorted).index THEN <<seg>> \o sorted
    ELSE <<Head(sorted)>> \o InsertByIndex(seg, Tail(sorted))

SortByIndex_InputOrder(segs) == segs

RECURSIVE SortByIndex(_)
SortByIndex(segs) ==
    IF segs = <<>> THEN <<>>
    ELSE InsertByIndex(segs[Len(segs)], SortByIndex(SubSeq(segs, 1, Len(segs) - 1)))

\* distance_to_start < 50: "Points are very close, likely connected"
points_connected_OnlyIdentical(last_point, first_point) ==
    calculate_distance(last_point, first_point) = 0

points_connected(last_point, first_point) ==
    calculate_distance(last_point, first_point) < StitchTolerance

\* history of the points copied from positions first..Len of a segment
Provenance(segment, first) ==
    [k \in 1..(Len(segment.coordinates) - first + 1) |->
        [seg |-> segment.index, pos |-> first + k - 1]]

BuildInit ==
    /\ pc = "build"
    /\ \E n \in 0..MaxSegs :
         \E index \in {f \in [1..n -> 0..(MaxSegs - 1)] : Injective(f)} :
           \E coordinates \in [1..n -> SeqsUpTo(BuildCoords, MaxSegLen)] :
             main_segments = [k \in 1..n |-> Segment(index[k], coordinates[k])]
    /\ sorted_segments = <<>>
    /\ detailed_track = <<>>
    /\ origin = <<>>
    /\ i = 0
    /\ track_coords = <<>>
    /\ ClassifyIdle /\ CorridorIdle /\ LocateIdle
    /\ RestIdle

\* if not main_segments: return []
BuildEmpty ==
    /\ pc = "build"
    /\ main_segments = <<>>
    /\ pc' = "built"
    /\ UNCHANGED <<i, buildVars, classifyVars, track_coords, corridorVars, locateVars, restVars>>

\* sorted_segments = sorted(...); detailed_track = []
BuildSort ==
    /\ pc = "build"
    /\ main_segments # <<>>
    /\ sorted_segments' = SortByIndex(main_segments)
    /\ detailed_track' = <<>>
    /\ origin' = <<>>
    /\ i' = 1
    /\ pc' = "build_loop"
    /\ UNCHANGED <<main_segments, classifyVars, track_coords, corridorVars, locateVars, restVars>>

\* i == 0: detailed_track.extend(coords)
BuildFirst ==
    /\ pc = "build_loop"
    /\ i = 1
    /\ i <= Len(sorted_segments)
    /\ detailed_track' = detailed_track \o sorted_segments[i].coordinates
    /\ origin' = origin \o Provenance(sorted_segments[i], 1)
    /\ i' = i + 1
    /\ UNCHANGED <<pc, main_segments, sorted_segments, classifyVars, track_coords, corridorVars, locateVars, restVars>>

\* detailed_track[-1] or coords[0] does not exist: IndexError
BuildIndexError ==
    /\ pc = "build_loop"
    /\ i > 1
    /\ i <= Len(sorted_segments)
    /\ \/ detailed_track = <<>>
       \/ sorted_segments[i].coordinates = <<>>
    /\ pc' = "error"
    /\ UNCHANGED <<i, buildVars, classifyVars, track_coords, corridorVars, locateVars, restVars>>

BuildStitch_KeepsFirst ==
    /\ pc = "build_loop"
    /\ i > 1
    /\ i <= Len(sorted_segments)
    /\ detailed_track # <<>>
    /\ sorted_segments[i].coordinates # <<>>
    /\ LET coords == sorted_segments[i].coordinates
           last_point == detailed_track[Len(detailed_track)]
           first_point == coords[1]
       IN  /\ points_connected(last_point, first_point)
           /\ detailed_track' = detailed_track \o coords
           /\ origin' = origin \o Provenance(sorted_segments[i], 1)
    /\ i' = i + 1
    /\ UNCHANGED <<pc, main_segments, sorted_segments, classifyVars, track_coords, corridorVars, locateVars, restVars>>

\* distance_to_start < 50: detailed_track.extend(coords[1:])
BuildStitch ==
    /\ pc = "build_loop"
    /\ i > 1
    /\ i <= Len(sorted_segments)
    /\ detailed_track # <<>>
    /\ sorted_segments[i].coordinates # <<>>
    /\ LET coords == sorted_segments[i].coordinates
           last_point == detailed_track[Len(detailed_track)]
           first_point == coords[1]
       IN  /\ points_connected(last_point, first_point)
           /\ detailed_track' = detailed_track \o Tail(coords)
           /\ origin' = origin \o Provenance(sorted_segments[i], 2)
    /\ i' = i + 1
    /\ UNCHANGED <<pc, main_segments, sorted_segments, classifyVars, track_coords, corridorVars, locateVars, restVars>>

BuildGap_DropsFirst ==
    /\ pc = "build_loop"
    /\ i > 1
    /\ i <= Len(sorted_segments)
    /\ detailed_track # <<>>
    /\ sorted_segments[i].coordinates # <<>>
    /\ LET coords == sorted_segments[i].coordinates
           last_point == detailed_track[Len(detailed_track)]
           first_point == coords[1]
       IN  /\ ~points_connected(last_point, first_point)
           /\ detailed_track' = detailed_track \o Tail(coords)
           /\ origin' = origin \o Provenance(sorted_segments[i], 2)
    /\ i' = i + 1
    /\ UNCHANGED <<pc, main_segments, sorted_segments, classifyVars, track_coords, corridorVars, locateVars, restVars>>

\* else: detailed_track.extend(coords)
BuildGap ==
    /\ pc = "build_loop"
    /\ i > 1
    /\ i <= Len(sorted_segments)
    /\ detailed_track # <<>>
    /\ sorted_segments[i].coordinates # <<>>
    /\ LET coords == sorted_segments[i].coordinates
           last_point == detailed_track[Len(detailed_track)]
           first_point == coords[1]
       IN  /\ ~points_connected(last_point, first_point)
           /\ detailed_track' = detailed_track \o coords
           /\ origin' = origin \o Provenance(sorted_segments[i], 1)
    /\ i' = i + 1
    /\ UNCHANGED <<pc, main_segments, sorted_segments, classifyVars, track_coords, corridorVars, locateVars, restVars>>

\* return detailed_track
BuildReturn ==
    /\ pc = "build_loop"
    /\ i > Len(sorted_segments)
    /\ pc' = "built"
    /\ UNCHANGED <<i, buildVars, classifyVars, track_coords, corridorVars, locateVars, restVars>>

BuildNext ==
    \/ BuildEmpty
    \/ BuildSort
    \/ BuildFirst
    \/ BuildIndexError
    \/ BuildStitch
    \/ BuildGap
    \/ BuildReturn

SpecBuild == BuildInit /\ [][BuildNext]_vars

(***************************************************************************)
(* Properties of the track builder                                         *)
(***************************************************************************)
Last(seq) == seq[Len(seq)]
Range(seq) == {seq[k] : k \in DOMAIN seq}

\* C1 as claimed: no two consecutive points of a built Track are within the
\* 50 m tolerance of each other, wherever in the segments they come from.
C1_NoAdjacentWithinTolerance ==
    pc = "built" =>
        \A k \in 1..(Len(detailed_track) - 1) :
            calculate_distance(detailed_track[k], detailed_track[k + 1]) >= StitchTolerance

\* C1 (amended): a Track point that is the first coordinate of a second or
\* later segment is 50 m or more from the Track point before it; the builder
\* collapses nothing else.
C1_KeptFirstCoordinateIsApart ==
    /\ Len(origin) = Len(detailed_track)
    /\ \A k \in 2..Len(detailed_track) :
          origin[k].pos = 1 =>
              calculate_distance(detailed_track[k - 1], detailed_track[k]) >= StitchTolerance

C1_Witness ==
    /\ pc = "built"
    /\ \E k \in 2..Len(detailed_track) : origin[k].pos = 1
    /\ \E k \in 2..Len(detailed_track) :
          calculate_distance(detailed_track[k - 1], detailed_track[k]) < StitchTolerance

\* the builder is about to append segment i to a non-empty Track
C_Appending ==
    /\ pc = "build_loop"
    /\ i > 1
    /\ i <= Len(sorted_segments)
    /\ detailed_track # <<>>
    /\ sorted_segments[i].coordinates # <<>>

C_TwoSegments ==
    /\ pc = "built"
    /\ Len(sorted_segments) = 2
    /\ sorted_segments[1].coordinates # <<>>
    /\ sorted_segments[2].coordinates # <<>>

C2_Step ==
    (/\ C_Appending
     /\ calculate_distance(Last(detailed_track), sorted_segments[i].coordinates[1])
            < StitchTolerance)
    => detailed_track' = detailed_track \o Tail(sorted_segments[i].coordinates)

C2_Two ==
    (/\ C_TwoSegments
     /\ calculate_distance(Last(sorted_segments[1].coordinates),
                           sorted_segments[2].coordinates[1]) < StitchTolerance)
    => /\ Len(detailed_track) =
            Len(sorted_segments[1].coordinates) + Len(sorted_segments[2].coordinates) - 1
       /\ detailed_track =
            sorted_segments[1].coordinates \o Tail(sorted_segments[2].coordinates)

\* C2: a segment whose first coordinate is less than 50 m from the Track's
\* last point is appended without its first coordinate; two such segments
\* give a Track of len(seg1) + len(seg2) - 1 points.
C2_Stitching == [][C2_Step]_vars /\ []C2_Two

C2_Witness ==
    /\ C_TwoSegments
    /\ Len(sorted_segments[2].coordinates) = 2
    /\ calculate_distance(Last(sorted_segments[1].coordinates),
                          sorted_segments[2].coordinates[1]) = 30
    /\ Len(detailed_track) = Len(sorted_segments[1].coordinates) + 1

C3_Step ==
    (/\ C_Appending
     /\ calculate_distance(Last(detailed_track), sorted_segments[i].coordinates[1])
            >= StitchTolerance)
    => detailed_track' = detailed_track \o sorted_segments[i].coordinates

C3_Two ==
    (/\ C_TwoSegments
     /\ calculate_distance(Last(sorted_segments[1].coordinates),
                           sorted_segments[2].coordinates[1]) >= StitchTolerance)
    => /\ Len(detailed_track) =
            Len(sorted_segments[1].coordinates) + Len(sorted_segments[2].coordinates)
       /\ detailed_track = sorted_segments[1].coordinates \o sorted_segments[2].coordinates

\* C3: a segment whose first coordinate is 50 m or more from the Track's last
\* point is appended whole, nothing dropped and nothing added; two such
\* segments give a Track of len(seg1) + len(seg2) points.
C3_GapPreservation == [][C3_Step]_vars /\ []C3_Two

C3_Witness ==
    /\ C_TwoSegments
    /\ calculate_distance(Last(sorted_segments[1].coordinates),
                          sorted_segments[2].coordinates[1]) = 60
    /\ Len(detailed_track) =
          Len(sorted_segments[1].coordinates) + Len(sorted_segments[2].coordinates)

\* the segments of a set in ascending origin index
RECURSIVE InIndexOrder(_)
InIndexOrder(S) ==
    IF S = {} THEN <<>>
    ELSE LET m == CHOOSE s \in S : \A t \in S : s.index <= t.index
         IN  <<m>> \o InIndexOrder(S \ {m})

\* the Track of a list of segments taken in the order of the list
RECURSIVE Stitched(_, _)
Stitched(track, segs) ==
    IF segs = <<>> THEN track
    ELSE LET coords == Head(segs).coordinates
         IN  IF track = <<>> \/ coords = <<>>
                THEN Stitched(track \o coords, Tail(segs))
             ELSE IF calculate_distance(Last(track), coords[1]) < StitchTolerance
                THEN Stitched(track \o Tail(coords), Tail(segs))
             ELSE Stitched(track \o coords, Tail(segs))

\* C4: the Track depends on the set of segments only, not on the order they
\* are passed in: it is the Track of the segments taken in ascending origin
\* index, and its points come from segments of ascending origin index.
C4_IndexOrderOnly ==
    pc = "built" =>
        /\ detailed_track = Stitched(<<>>, InIndexOrder(Range(main_segments)))
        /\ \A k \in 1..(Len(origin) - 1) : origin[k].seg <= origin[k + 1].seg

C4_Witness ==
    /\ pc = "built"
    /\ Len(main_segments) = 2
    /\ main_segments[1].index > main_segments[2].index
    /\ main_segments[1].coordinates # main_segments[2].coordinates
    /\ Len(detailed_track) >= 3

(***************************************************************************)
(* Classification in generate_corridors_kml                                *)
(***************************************************************************)
\* [seg for seg in segs if keep(seg)] for the two uses of the classifier
RECURSIVE main_track_filter(_)
main_track_filter(segs) ==
    IF segs = <<>> THEN <<>>
    ELSE IF ~is_dashed_connector_line(Head(segs))
         THEN <<Head(segs)>> \o main_track_filter(Tail(segs))
         ELSE main_track_filter(Tail(segs))

RECURSIVE dashed_filter(_)
dashed_filter(segs) ==
    IF segs = <<>> THEN <<>>
    ELSE IF is_dashed_connector_line(Head(segs))
         THEN <<Head(segs)>> \o dashed_filter(Tail(segs))
         ELSE dashed_filter(Tail(segs))

\* The extracted line segments: points of the prime meridian whose distances
\* are 0, 499, 500 and 999 m; a segment never has exactly 3 coordinates
\* (those are skipped when all_segments is filled), its index is its place.
ClassifyLats == {0, 499, 999}
ClassifyCoords == [lon : {0}, lat : ClassifyLats, alt : {0}]
ClassifyLens == {0, 1, 2, 4}
ClassifyCoordLists == UNION {[1..k -> ClassifyCoords] : k \in ClassifyLens}

ClassifyInit ==
    /\ pc = "classify"
    /\ i = 0
    /\ \E n \in 0..MaxClassified :
         \E coordinates \in [1..n -> ClassifyCoordLists] :
            all_segments = [k \in 1..n |-> Segment(k - 1, coordinates[k])]
    /\ main_track_segments = <<>>
    /\ dashed_connectors = <<>>
    /\ track_coords = <<>>
    /\ BuildIdle /\ CorridorIdle /\ LocateIdle
    /\ RestIdle

\* main_track_segments = [seg for seg in all_segments if not is_dashed...]
ClassifyMain ==
    /\ pc = "classify"
    /\ main_track_segments' = main_track_filter(all_segments)
    /\ pc' = "classify_dashed"
    /\ UNCHANGED <<i, all_segments, dashed_connectors, buildVars, track_coords,
                   corridorVars, locateVars, restVars>>

\* dashed_connectors = [seg for seg in all_segments if is_dashed...]
ClassifyDashed ==
    /\ pc = "classify_dashed"
    /\ dashed_connectors' = dashed_filter(all_segments)
    /\ pc' = "classified"
    /\ UNCHANGED <<i, all_segments, main_track_segments, buildVars, track_coords,
                   corridorVars, locateVars, restVars>>

ClassifyNext ==
    \/ ClassifyMain
    \/ ClassifyDashed

SpecClassify == ClassifyInit /\ [][ClassifyNext]_vars

\* the classification as the claim states it
C5_IsDashed(seg) ==
    /\ Len(seg.coordinates) = 2
    /\ calculate_distance(seg.coordinates[1], seg.coordinates[2]) < 500

\* C5: a segment is a dashed connector iff it has exactly 2 coordinates less
\* than 500 m apart; every other segment (2 points 500 m apart, any other
\* coordinate count) is a main-track segment; each segment is in exactly one
\* of the two partitions.
C5_Classification ==
    pc = "classified" =>
        /\ \A seg \in Range(all_segments) :
              /\ seg \in Range(dashed_connectors) <=> C5_IsDashed(seg)
              /\ seg \in Range(main_track_segments) <=> ~C5_IsDashed(seg)
        /\ Range(main_track_segments) \cup Range(dashed_connectors) = Range(all_segments)
        /\ Len(main_track_segments) + Len(dashed_connectors) = Len(all_segments)

C5_Witness ==
    /\ pc = "classified"
    /\ \E seg \in Range(main_track_segments) :
          /\ Len(seg.coordinates) = 2
          /\ calculate_distance(seg.coordinates[1], seg.coordinates[2]) = 500
    /\ \E seg \in Range(dashed_connectors) :
          calculate_distance(seg.coordinates[1], seg.coordinates[2]) = 499

(***************************************************************************)
(* Corridor projector: generate_corridor_for_continuous_track              *)
(***************************************************************************)
\* The Tracks given to the projector and to the locator: points 1000 m apart
\* on the equator and on the prime meridian, each leg along one of the two
\* circles (a turn is made at (0, 0); a leg may have length 0 or turn back).
CrossArcs == {-1000, 0, 1000}
Alts == {0, 120}
CrossCoords == {c \in [lon : CrossArcs, lat : CrossArcs, alt : Alts] : c.lon = 0 \/ c.lat = 0}

SameCircle(a, b) ==
    \/ OnMeridian(a) /\ OnMeridian(b)
    \/ OnEquator(a) /\ OnEquator(b)

Tracks(n) ==
    {t \in SeqsUpTo(CrossCoords, n) : \A k \in 1..(Len(t) - 1) : SameCircle(t[k], t[k + 1])}

CorridorDistances == {100, 300}

\* "Handle angle wrapping"
wrap_diff_NoWrap(diff) == diff

wrap_diff(diff) ==
    IF diff > 180 THEN diff - 360
    ELSE IF diff < -180 THEN diff + 360
    ELSE diff

\* track_bearing of a middle point
middle_bearing(bearing_in, bearing_out) ==
    (bearing_in + wrap_diff(bearing_out - bearing_in) \div 2) % 360

left_bearing_Plus90(track_bearing) == (track_bearing + 90) % 360

left_bearing(track_bearing) == (track_bearing - 90) % 360
right_bearing(track_bearing) == (track_bearing + 90) % 360

\* range(len(track_coords))
corridor_range_OneShort(track) == Len(track) - 1

corridor_range(track) == Len(track)

CorridorInit ==
    /\ pc = "corridor"
    /\ i = 0
    /\ track_coords \in Tracks(MaxTrack)
    /\ corridor_distance \in CorridorDistances
    /\ left_corridor = <<>>
    /\ right_corridor = <<>>
    /\ headings = <<>>
    /\ ClassifyIdle /\ BuildIdle /\ LocateIdle
    /\ RestIdle

\* if len(track_coords) < 2: return [], []
CorridorTooShort ==
    /\ pc = "corridor"
    /\ Len(track_coords) < 2
    /\ pc' = "projected"
    /\ UNCHANGED <<i, classifyVars, buildVars, track_coords, corridorVars, locateVars, restVars>>

\* left_corridor = []; right_corridor = []
CorridorStart ==
    /\ pc = "corridor"
    /\ ~(Len(track_coords) < 2)
    /\ left_corridor' = <<>>
    /\ right_corridor' = <<>>
    /\ i' = 1
    /\ pc' = "corridor_loop"
    /\ UNCHANGED <<classifyVars, buildVars, track_coords, corridor_distance, headings,
                   locateVars, restVars>>

\* the end of one iteration, from the perpendicular bearings on
CorridorAppend(track_bearing) ==
    LET current_coord == track_coords[i]
        left_point == project_coordinate(current_coord, left_bearing(track_bearing),
                                         corridor_distance)
        right_point == project_coordinate(current_coord, right_bearing(track_bearing),
                                          corridor_distance)
    IN  /\ left_corridor' = Append(left_corridor, left_point)
        /\ right_corridor' = Append(right_corridor, right_point)
        /\ headings' = Append(headings, track_bearing)
        /\ i' = i + 1
        /\ UNCHANGED <<pc, classifyVars, buildVars, track_coords, corridor_distance,
                       locateVars, restVars>>

\* i == 0: bearing to the next point
CorridorFirst ==
    /\ pc = "corridor_loop"
    /\ i <= corridor_range(track_coords)
    /\ i = 1
    /\ CorridorAppend(calculate_bearing(track_coords[i], track_coords[i + 1]))

\* i == len(track_coords) - 1: bearing from the previous point
CorridorLast ==
    /\ pc = "corridor_loop"
    /\ i <= corridor_range(track_coords)
    /\ i # 1
    /\ i = Len(track_coords)
    /\ CorridorAppend(calculate_bearing(track_coords[i - 1], track_coords[i]))

\* middle points
CorridorMiddle ==
    /\ pc = "corridor_loop"
    /\ i <= corridor_range(track_coords)
    /\ i # 1
    /\ i # Len(track_coords)
    /\ LET bearing_in == calculate_bearing(track_coords[i - 1], track_coords[i])
           bearing_out == calculate_bearing(track_coords[i], track_coords[i + 1])
       IN  CorridorAppend(middle_bearing(bearing_in, bearing_out))

\* return left_corridor, right_corridor
CorridorReturn ==
    /\ pc = "corridor_loop"
    /\ i > corridor_range(track_coords)
    /\ pc' = "projected"
    /\ UNCHANGED <<i, classifyVars, buildVars, track_coords, corridorVars, locateVars, restVars>>

CorridorNext ==
    \/ CorridorTooShort
    \/ CorridorStart
    \/ CorridorFirst
    \/ CorridorLast
    \/ CorridorMiddle
    \/ CorridorReturn

SpecCorridor == CorridorInit /\ [][CorridorNext]_vars

(***************************************************************************)
(* Properties of the corridor projector                                    *)
(***************************************************************************)
\* the bearings that occur: multiples of 45 degrees
Bearings == {45 * k : k \in 0..7}

\* C6: for a Track of at least 2 points the projector returns left and right
\* sequences of the Track's length, left[k] and right[k] being points
\* projected from track[k] by corridor_distance.
C6_IndexAligned ==
    (pc = "projected" /\ Len(track_coords) >= 2) =>
        /\ Len(left_corridor) = Len(track_coords)
        /\ Len(right_corridor) = Len(track_coords)
        /\ \A k \in 1..Len(track_coords) :
              /\ k \in DOMAIN left_corridor /\ k \in DOMAIN right_corridor
              /\ \E b \in Bearings :
                    left_corridor[k] = project_coordinate(track_coords[k], b, corridor_distance)
              /\ \E b \in Bearings :
                    right_corridor[k] = project_coordinate(track_coords[k], b, corridor_distance)

C6_Witness ==
    /\ pc = "projected"
    /\ Len(track_coords) = 3
    /\ Len(left_corridor) = 3
    /\ track_coords[1] # track_coords[2]
    /\ track_coords[2] # track_coords[3]
    /\ left_corridor[3] # left_corridor[2]

\* outgoing - incoming normalized into the half-open interval (-180, 180]
C7_HalfOpen(diff) ==
    IF diff > 180 THEN diff - 360
    ELSE IF diff <= -180 THEN diff + 360
    ELSE diff

\* outgoing - incoming normalized into the closed interval [-180, 180]
C7_Closed(diff) ==
    IF diff > 180 THEN diff - 360
    ELSE IF diff < -180 THEN diff + 360
    ELSE diff

C7_Incoming(k) == calculate_bearing(track_coords[k - 1], track_coords[k])
C7_Outgoing(k) == calculate_bearing(track_coords[k], track_coords[k + 1])

C7_Ends ==
    /\ Len(headings) = Len(track_coords)
    /\ headings[1] = C7_Outgoing(1)
    /\ headings[Len(track_coords)] = C7_Incoming(Len(track_coords))

\* C7 as claimed: the heading is the outgoing bearing at index 0, the
\* incoming bearing at the last index, and at an interior index
\* (incoming + signed_diff / 2) mod 360 with signed_diff in (-180, 180].
C7_HeadingRuleHalfOpen ==
    (pc = "projected" /\ Len(track_coords) >= 2) =>
        /\ C7_Ends
        /\ \A k \in 2..(Len(track_coords) - 1) :
              headings[k] =
                  (C7_Incoming(k) + C7_HalfOpen(C7_Outgoing(k) - C7_Incoming(k)) \div 2) % 360

\* C7 (amended): the same with signed_diff in [-180, 180]: outgoing -
\* incoming, less 360 when above 180, plus 360 when below -180, and left at
\* -180 when it is exactly -180.
C7_HeadingRuleClosed ==
    (pc = "projected" /\ Len(track_coords) >= 2) =>
        /\ C7_Ends
        /\ \A k \in 2..(Len(track_coords) - 1) :
              headings[k] =
                  (C7_Incoming(k) + C7_Closed(C7_Outgoing(k) - C7_Incoming(k)) \div 2) % 360

\* an interior point where the difference wraps: from west to north
C7_Witness ==
    /\ pc = "projected"
    /\ Len(track_coords) = 3
    /\ C7_Incoming(2) = 270 /\ C7_Outgoing(2) = 0 /\ headings[2] = 315

\* C8: left[k] is projected from track[k] along (heading - 90) mod 360 and
\* right[k] along (heading + 90) mod 360, both in [0, 360); on a Track whose
\* legs all have bearing 0 these are 270 and 90 at every index.
C8_PerpendicularBearings ==
    (pc = "projected" /\ Len(track_coords) >= 2) =>
        /\ Len(headings) = Len(track_coords)
        /\ Len(left_corridor) = Len(track_coords)
        /\ Len(right_corridor) = Len(track_coords)
        /\ \A k \in 1..Len(track_coords) :
              LET l == (headings[k] - 90) % 360
                  r == (headings[k] + 90) % 360
              IN  /\ l \in 0..359 /\ r \in 0..359
                  /\ left_corridor[k] = project_coordinate(track_coords[k], l, corridor_distance)
                  /\ right_corridor[k] = project_coordinate(track_coords[k], r, corridor_distance)
        /\ (\A k \in 1..(Len(track_coords) - 1) :
                calculate_bearing(track_coords[k], track_coords[k + 1]) = 0)
           => \A k \in 1..Len(track_coords) :
                /\ left_corridor[k] = project_coordinate(track_coords[k], 270, corridor_distance)
                /\ right_corridor[k] = project_coordinate(track_coords[k], 90, corridor_distance)

\* a 3-point Track running north along the meridian, corridor at 300 m
C8_Witness ==
    /\ pc = "projected"
    /\ Len(track_coords) = 3
    /\ \A k \in 1..3 : track_coords[k].lon = 0
    /\ track_coords[1].lat < track_coords[2].lat
    /\ track_coords[2].lat < track_coords[3].lat
    /\ corridor_distance = 300
    /\ left_corridor[1].brg = 270 /\ left_corridor[1].dist = 300
    /\ right_corridor[3].brg = 90 /\ right_corridor[3].dist = 300
    /\ left_corridor[2] = [lon |-> -300, lat |-> 0, alt |-> track_coords[2].alt]

(***************************************************************************)
(* Distance-along-track locator: point_at_distance_along_track             *)
(***************************************************************************)
NauticalMile == 1852

\* the target distances: the two the generator asks for (5 NM after SP, 1 NM
\* after a TP) and three that fall inside or at the end of a 1000 m leg
TargetDistances == {500, 1000, 2500, NauticalMile, 5 * NauticalMile}

\* if remaining <= seg_len
within_segment_Strict(rem, seg_len) == rem < seg_len

within_segment(rem, seg_len) == rem <= seg_len

\* if start_index >= len(track_coords) - 1: no leg starts at start_index
no_leg_after_PastEnd(start, track) == start >= Len(track)

no_leg_after_Never(start, track) == FALSE

no_leg_after(start, track) == start >= Len(track) - 1

\* start_index is a 0-based index of the Track, as find_point_on_track
\* returns it; i is the 1-based number of the leg from track_coords[i]
LocateInit ==
    /\ pc = "locate"
    /\ i = 0
    /\ track_coords \in Tracks(MaxTrack) \ {<<>>}
    /\ start_index \in 0..(Len(track_coords) - 1)
    /\ target_distance_m \in TargetDistances
    /\ remaining = 0
    /\ result = None
    /\ ClassifyIdle /\ BuildIdle /\ CorridorIdle
    /\ RestIdle

\* if start_index >= len(track_coords) - 1: return None
LocateNone ==
    /\ pc = "locate"
    /\ no_leg_after(start_index, track_coords)
    /\ result' = None
    /\ pc' = "located"
    /\ UNCHANGED <<i, classifyVars, buildVars, track_coords, corridorVars,
                   start_index, target_distance_m, remaining, restVars>>

\* remaining = target_distance_m
LocateStart ==
    /\ pc = "locate"
    /\ ~no_leg_after(start_index, track_coords)
    /\ remaining' = target_distance_m
    /\ i' = start_index + 1
    /\ pc' = "locate_loop"
    /\ UNCHANGED <<classifyVars, buildVars, track_coords, corridorVars,
                   start_index, target_distance_m, result, restVars>>

\* remaining <= seg_len: return point, bearing
LocateWithin ==
    /\ pc = "locate_loop"
    /\ i <= Len(track_coords) - 1
    /\ LET seg_start == track_coords[i]
           seg_end == track_coords[i + 1]
           seg_len == calculate_distance(seg_start, seg_end)
           bearing == calculate_bearing(seg_start, seg_end)
       IN  /\ within_segment(remaining, seg_len)
           /\ result' = <<project_coordinate(seg_start, bearing, remaining), bearing>>
    /\ pc' = "located"
    /\ UNCHANGED <<i, classifyVars, buildVars, track_coords, corridorVars,
                   start_index, target_distance_m, remaining, restVars>>

\* remaining -= seg_len
LocateAdvance ==
    /\ pc = "locate_loop"
    /\ i <= Len(track_coords) - 1
    /\ LET seg_len == calculate_distance(track_coords[i], track_coords[i + 1])
       IN  /\ ~within_segment(remaining, seg_len)
           /\ remaining' = remaining - seg_len
    /\ i' = i + 1
    /\ UNCHANGED <<pc, classifyVars, buildVars, track_coords, corridorVars,
                   start_index, target_distance_m, result, restVars>>

\* out of track: return track_coords[-1], last_bearing
LocateExhausted ==
    /\ pc = "locate_loop"
    /\ i > Len(track_coords) - 1
    /\ LET n == Len(track_coords)
           last_bearing == IF n >= 2
                           THEN calculate_bearing(track_coords[n - 1], track_coords[n])
                           ELSE 0
       IN  result' = <<track_coords[n], last_bearing>>
    /\ pc' = "located"
    /\ UNCHANGED <<i, classifyVars, buildVars, track_coords, corridorVars,
                   start_index, target_distance_m, remaining, restVars>>

LocateNext ==
    \/ LocateNone
    \/ LocateStart
    \/ LocateWithin
    \/ LocateAdvance
    \/ LocateExhausted

SpecLocate == LocateInit /\ [][LocateNext]_vars

(***************************************************************************)
(* Properties of the locator                                               *)
(***************************************************************************)
\* length of leg j, from track_coords[j] to track_coords[j + 1]
LegLength(j) == calculate_distance(track_coords[j], track_coords[j + 1])

\* summed length of legs a..b
RECURSIVE SumLegs(_, _)
SumLegs(a, b) == IF b < a THEN 0 ELSE SumLegs(a, b - 1) + LegLength(b)

\* the first leg at or after start_index at which the accumulated length
\* reaches or exceeds target_distance_m
C10_Leg(k) ==
    /\ k \in (start_index + 1)..(Len(track_coords) - 1)
    /\ SumLegs(start_index + 1, k) >= target_distance_m
    /\ \A j \in (start_index + 1)..(k - 1) : SumLegs(start_index + 1, j) < target_distance_m

\* C10: when target_distance_m does not exceed the track length after
\* start_index, the locator returns the point projected from track[k] along
\* the bearing of leg k by the target less the length of legs start..k-1,
\* with that bearing, k being the first leg where the accumulated length
\* reaches the target; the point is that far from track[k], not a vertex
\* snapped to.
C10_Interpolation ==
    (/\ pc = "located"
     /\ target_distance_m <= SumLegs(start_index + 1, Len(track_coords) - 1))
    => \E k \in 1..(Len(track_coords) - 1) :
          LET bearing == calculate_bearing(track_coords[k], track_coords[k + 1])
              rest == target_distance_m - SumLegs(start_index + 1, k - 1)
          IN  /\ C10_Leg(k)
              /\ result # None
              /\ result = <<project_coordinate(track_coords[k], bearing, rest), bearing>>
              /\ calculate_distance(track_coords[k], result[1]) = rest

\* 1 NM from the start of a Track with two 1000 m legs: 852 m into the second
\* leg, at no vertex
C10_Witness ==
    /\ pc = "located"
    /\ Len(track_coords) = 3
    /\ start_index = 0
    /\ target_distance_m = NauticalMile
    /\ LegLength(1) = 1000 /\ LegLength(2) = 1000
    /\ result # None
    /\ calculate_distance(track_coords[2], result[1]) = 852
    /\ \A k \in 1..3 : calculate_distance(track_coords[k], result[1]) # 0

\* the target lies beyond the end of the Track
C11_Exceeds ==
    /\ pc = "located"
    /\ Len(track_coords) >= 2
    /\ target_distance_m > SumLegs(start_index + 1, Len(track_coords) - 1)

C11_LastPoint ==
    <<track_coords[Len(track_coords)],
      calculate_bearing(track_coords[Len(track_coords) - 1], track_coords[Len(track_coords)])>>

\* C11 as claimed: for every start index of a Track of at least 2 points, the
\* last index included, a target beyond the remaining length gives the last
\* Track point and the bearing of the final leg, never no result.
C11_ExhaustionAnyStart ==
    C11_Exceeds => (result # None /\ result = C11_LastPoint)

\* C11 (amended): that holds for every start index before the last; from the
\* last index, where no leg starts, the locator returns no result.
C11_ExhaustionBeforeLast ==
    C11_Exceeds =>
        /\ start_index < Len(track_coords) - 1 => result = C11_LastPoint
        /\ start_index = Len(track_coords) - 1 => result = None

C11_Witness ==
    /\ C11_Exceeds
    /\ Len(track_coords) = 3
    /\ start_index = 1
    /\ target_distance_m = NauticalMile
    /\ LegLength(2) = 1000
    /\ result = C11_LastPoint


(***************************************************************************)
(* find_point_on_track: the Track point nearest to a reference point.      *)
(* The Track and the reference point lie on the prime meridian, where      *)
(* calculate_distance is exact.                                            *)
(***************************************************************************)
\* float('inf'): no distance is below -1, so -1 stands for the value every
\* distance is below
float_inf == -1


TargetArcs == {-1000, -500, 0, 400, 1000, 50000}
TargetPoints == [lon : {0}, lat : TargetArcs, alt : {0}]

MeridianTracks(n) == {t \in Tracks(n) : \A k \in 1..Len(t) : OnMeridian(t[k])}

\* distance < min_distance
closer_OrEqual(distance, minimum) ==
    IF minimum = float_inf THEN TRUE ELSE distance <= minimum

closer(distance, minimum) ==
    IF minimum = float_inf THEN TRUE ELSE distance < minimum

\* i is the 0-based index enumerate() yields
NearestInit ==
    /\ pc = "nearest"
    /\ i = 0
    /\ track_coords \in MeridianTracks(MaxTrack)
    /\ target_point \in TargetPoints
    /\ min_distance = 0
    /\ closest_index = 0
    /\ ClassifyIdle /\ BuildIdle /\ CorridorIdle /\ LocateIdle
    /\ SortIdle /\ ParseIdle /\ RunIdle /\ PhotoIdle

\* if not track_coords: return None
NearestEmpty ==
    /\ pc = "nearest"
    /\ track_coords = <<>>
    /\ closest_index' = None
    /\ pc' = "resolved"
    /\ UNCHANGED <<i, classifyVars, buildVars, track_coords, corridorVars, locateVars,
                   target_point, min_distance, tp_coords, parseVars, runVars, photoVars>>

\* min_distance = float('inf'); closest_index = 0
NearestStart ==
    /\ pc = "nearest"
    /\ track_coords # <<>>
    /\ min_distance' = float_inf
    /\ closest_index' = 0
    /\ i' = 0
    /\ pc' = "nearest_loop"
    /\ UNCHANGED <<classifyVars, buildVars, track_coords, corridorVars, locateVars,
                   target_point, tp_coords, parseVars, runVars, photoVars>>

\* distance < min_distance: the point becomes the closest one
NearestCloser ==
    /\ pc = "nearest_loop"
    /\ i < Len(track_coords)
    /\ LET distance == calculate_distance(track_coords[i + 1], target_point)
       IN  /\ closer(distance, min_distance)
           /\ min_distance' = distance
           /\ closest_index' = i
    /\ i' = i + 1
    /\ UNCHANGED <<pc, classifyVars, buildVars, track_coords, corridorVars, locateVars,
                   target_point, tp_coords, parseVars, runVars, photoVars>>

\* otherwise the point is passed over
NearestPass ==
    /\ pc = "nearest_loop"
    /\ i < Len(track_coords)
    /\ LET distance == calculate_distance(track_coords[i + 1], target_point)
       IN  ~closer(distance, min_distance)
    /\ i' = i + 1
    /\ UNCHANGED <<pc, classifyVars, buildVars, track_coords, corridorVars, locateVars,
                   nearestVars, tp_coords, parseVars, runVars, photoVars>>

\* return closest_index
NearestReturn ==
    /\ pc = "nearest_loop"
    /\ i >= Len(track_coords)
    /\ pc' = "resolved"
    /\ UNCHANGED <<i, classifyVars, buildVars, track_coords, corridorVars, locateVars,
                   nearestVars, tp_coords, parseVars, runVars, photoVars>>

NearestNext ==
    \/ NearestEmpty
    \/ NearestStart
    \/ NearestCloser
    \/ NearestPass
    \/ NearestReturn

SpecNearest == NearestInit /\ [][NearestNext]_vars

(***************************************************************************)
(* Properties of the nearest-point resolver                                *)
(***************************************************************************)
\* distance from the 0-based Track index k to the reference point
DistanceTo(k) == calculate_distance(track_coords[k + 1], target_point)

\* C14: the resolver returns the lowest index among the Track points of
\* minimal distance to the reference point, whatever that distance is.
C14_LowestNearest ==
    (pc = "resolved" /\ track_coords # <<>>) =>
        /\ closest_index \in 0..(Len(track_coords) - 1)
        /\ \A k \in 0..(Len(track_coords) - 1) :
              /\ DistanceTo(closest_index) <= DistanceTo(k)
              /\ DistanceTo(k) = DistanceTo(closest_index) => closest_index <= k

\* a tie between index 1 and index 2, both 49000 m from the reference point
C14_Witness ==
    /\ pc = "resolved"
    /\ Len(track_coords) = 3
    /\ target_point.lat = 50000
    /\ DistanceTo(0) = 50000
    /\ DistanceTo(1) = 49000
    /\ DistanceTo(2) = 49000
    /\ closest_index = 1

(***************************************************************************)
(* parse_coordinates.  The argument is modelled after                      *)
(* coord_string.strip().split(): a sequence of entries, each entry the     *)
(* sequence of texts coord_pair.split(',') yields.                         *)
(***************************************************************************)
MaxEntries == 3   \* entries of one coordinate string

\* texts float() accepts, with the value it returns; on any other text
\* float() raises ValueError
FloatTexts == {"0", "30", "120", "1000", "1e3", "2000", "-1000"}

float(text) ==
    CASE text = "0" -> 0
      [] text = "30" -> 30
      [] text = "120" -> 120
      [] text = "1000" -> 1000
      [] text = "1e3" -> 1000
      [] text = "2000" -> 2000
      [] text = "-1000" -> -1000

\* if len(parts) >= 3
enough_parts_MoreThanThree(parts) == Len(parts) > 3

enough_parts(parts) == Len(parts) >= 3

\* the value of parse_coordinates: raised tells that float() raised
\* ValueError, coords is the returned list otherwise
RECURSIVE parse_coordinates(_)
parse_coordinates(coord_pairs) ==
    IF coord_pairs = <<>> THEN [raised |-> FALSE, coords |-> <<>>]
    ELSE LET parts == Head(coord_pairs)
             rest == parse_coordinates(Tail(coord_pairs))
         IN  IF ~enough_parts(parts) THEN rest
             ELSE IF \E k \in 1..3 : parts[k] \notin FloatTexts
                THEN [raised |-> TRUE, coords |-> <<>>]
             ELSE IF rest.raised THEN rest
             ELSE [raised |-> FALSE,
                   coords |-> <<[lon |-> float(parts[1]), lat |-> float(parts[2]),
                                 alt |-> float(parts[3])]>> \o rest.coords]

ParseEntries ==
    { <<"0">>, <<"0", "1000">>, <<"0", "1000", "0">>, <<"0", "1e3", "120">>,
      <<"0", "30", "0", "2000">>, <<"0", "30", "0", "x">>, <<"0", "x", "0">> }

ParseInit ==
    /\ pc = "parse"
    /\ i = 0
    /\ coord_string \in SeqsUpTo(ParseEntries, MaxEntries)
    /\ parsed = <<>>
    /\ track_coords = <<>>
    /\ ClassifyIdle /\ BuildIdle /\ CorridorIdle /\ LocateIdle
    /\ NearestIdle /\ SortIdle /\ RunIdle /\ PhotoIdle

\* return coords
ParseReturn ==
    /\ pc = "parse"
    /\ ~parse_coordinates(coord_string).raised
    /\ parsed' = parse_coordinates(coord_string).coords
    /\ pc' = "parsed"
    /\ UNCHANGED <<i, classifyVars, buildVars, track_coords, corridorVars, locateVars,
                   nearestVars, tp_coords, coord_string, runVars, photoVars>>

\* float() raises ValueError
ParseValueError ==
    /\ pc = "parse"
    /\ parse_coordinates(coord_string).raised
    /\ pc' = "error"
    /\ UNCHANGED <<i, classifyVars, buildVars, track_coords, corridorVars, locateVars,
                   nearestVars, tp_coords, parseVars, runVars, photoVars>>

ParseNext ==
    \/ ParseReturn
    \/ ParseValueError

SpecParse == ParseInit /\ [][ParseNext]_vars

(***************************************************************************)
(* Properties of parse_coordinates                                         *)
(***************************************************************************)
\* positions of the entries with at least 3 fields
Kept == {j \in 1..Len(coord_string) : Len(coord_string[j]) >= 3}

\* position in the result of the kept entry j
Rank(j) == Cardinality({k \in Kept : k <= j})

\* the first three fields of every kept entry are numerals
NumericFields ==
    \A j \in Kept : \A k \in 1..3 : coord_string[j][k] \in FloatTexts

MaxPoints == 3    \* placemarks given to the scan

Placemark(name, geometry, text) == [name |-> name, geometry |-> geometry, text |-> text]

\* texts of decimal digits, with the value int() returns
Numerals == {"0", "1", "2", "10"}

int(text) ==
    CASE text = "0" -> 0
      [] text = "1" -> 1
      [] text = "2" -> 2
      [] text = "10" -> 10

isdigit(text) == text \in Numerals

\* str.split(): the words between runs of whitespace
split(name) == SelectSeq(name, LAMBDA word : word # "")

\* name.startswith("TP ")
startswith_TP(name) == Len(name) >= 2 /\ name[1] = "TP"

\* key=lambda x: int(x[0].split()[-1]) if x[0].split()[-1].isdigit() else 0
tp_number_NonNumericLast(x) ==
    LET words == split(x[1])
    IN  IF isdigit(words[Len(words)]) THEN int(words[Len(words)]) ELSE 1000000

tp_number(x) ==
    LET words == split(x[1])
    IN  IF isdigit(words[Len(words)]) THEN int(words[Len(words)]) ELSE 0

\* list.sort is stable: x goes behind every entry whose key is not larger
RECURSIVE InsertByNumber(_, _)
InsertByNumber(x, sorted) ==
    IF sorted = <<>> THEN <<x>>
    ELSE IF tp_number(sorted[Len(sorted)]) <= tp_number(x) THEN Append(sorted, x)
    ELSE Append(InsertByNumber(x, SubSeq(sorted, 1, Len(sorted) - 1)), sorted[Len(sorted)])

RECURSIVE SortByNumber(_)
SortByNumber(tps) ==
    IF tps = <<>> THEN <<>>
    ELSE InsertByNumber(tps[Len(tps)], SortByNumber(SubSeq(tps, 1, Len(tps) - 1)))

\* point is not None
has_point(placemark) == placemark.geometry = "Point"

\* some parse_coordinates(point.text) raises ValueError
scan_raises(pms) ==
    \E k \in 1..Len(pms) : has_point(pms[k]) /\ parse_coordinates(pms[k].text).raised

\* a point placemark with at least one parsed coordinate
has_coord(placemark) ==
    has_point(placemark) /\ parse_coordinates(placemark.text).coords # <<>>

first_coord(placemark) == parse_coordinates(placemark.text).coords[1]

\* sp_coord after the loop: the coordinate of the last placemark named "SP"
RECURSIVE scan_sp(_)
scan_sp(pms) ==
    IF pms = <<>> THEN None
    ELSE LET placemark == pms[Len(pms)]
         IN  IF has_coord(placemark) /\ placemark.name = <<"SP">>
                THEN first_coord(placemark)
             ELSE scan_sp(SubSeq(pms, 1, Len(pms) - 1))

\* tp_coords after the loop
RECURSIVE scan_tp(_)
scan_tp(pms) ==
    IF pms = <<>> THEN <<>>
    ELSE LET placemark == Head(pms)
         IN  IF has_coord(placemark) /\ placemark.name # <<"SP">>
                                     /\ startswith_TP(placemark.name)
                THEN <<<<placemark.name, first_coord(placemark)>>>> \o scan_tp(Tail(pms))
             ELSE scan_tp(Tail(pms))

PointNames ==
    { <<"SP">>, <<"TP">>, <<"TP", "">>, <<"TP", "x">>, <<"TP", "1">>, <<"TP", "2">>,
      <<"TP", "10">> }
PointTexts ==
    { << <<"0", "0", "0">> >>, << <<"0", "1000", "0">>, <<"0", "2000", "0">> >>,
      << <<"0", "1000">> >>, << <<"0", "x", "0">> >> }
PointPlacemarks == {Placemark(name, "Point", text) : name \in PointNames, text \in PointTexts}

ScanInit ==
    /\ pc = "scan"
    /\ i = 0
    /\ placemarks \in SeqsUpTo(PointPlacemarks, MaxPoints)
    /\ document = <<>>
    /\ sp_coord = None
    /\ tp_coords = <<>>
    /\ distance_markers_created = 0
    /\ marker_loop = 0
    /\ track_coords = <<>>
    /\ ClassifyIdle /\ BuildIdle /\ CorridorIdle /\ LocateIdle
    /\ NearestIdle /\ ParseIdle /\ PhotoIdle

\* "Find SP and TP markers from point placemarks", "Sort TP coordinates by
\* TP number"
ScanReferences ==
    /\ pc = "scan"
    /\ ~scan_raises(placemarks)
    /\ sp_coord' = scan_sp(placemarks)
    /\ tp_coords' = SortByNumber(scan_tp(placemarks))
    /\ marker_loop' = 0
    /\ pc' = "markers"
    /\ UNCHANGED <<i, classifyVars, buildVars, track_coords, corridorVars, locateVars,
                   nearestVars, parseVars, placemarks, document,
                   distance_markers_created, photoVars>>

\* parse_coordinates(point.text) raises ValueError
ScanValueError ==
    /\ pc = "scan"
    /\ scan_raises(placemarks)
    /\ pc' = "error"
    /\ UNCHANGED <<i, classifyVars, buildVars, track_coords, corridorVars, locateVars,
                   restVars>>

ScanNext ==
    \/ ScanReferences
    \/ ScanValueError

SpecScan == ScanInit /\ [][ScanNext]_vars

(***************************************************************************)
(* Properties of the turning-point order                                   *)
(***************************************************************************)
\* the name ends in a number
NumericSuffix(name) == split(name)[Len(split(name))] \in {"0", "1", "2", "10"}

TrailingInteger(name) == int(split(name)[Len(split(name))])

\* C13 as stated: the numerically suffixed turning points are processed in
\* ascending order of their number, and every other turning point after
\* all of them.
C13_NonNumericLast ==
    (pc = "markers") =>
        \A a, b \in 1..Len(tp_coords) : a < b =>
            /\ (NumericSuffix(tp_coords[a][1]) /\ NumericSuffix(tp_coords[b][1]))
                  => TrailingInteger(tp_coords[a][1]) <= TrailingInteger(tp_coords[b][1])
            /\ ~(~NumericSuffix(tp_coords[a][1]) /\ NumericSuffix(tp_coords[b][1]))

\* the number a turning point is ordered by
C13_Number(name) == IF NumericSuffix(name) THEN TrailingInteger(name) ELSE 0

\* the turning points of number n, in their order in tps
C13_Numbered(tps, n) == SelectSeq(tps, LAMBDA x : C13_Number(x[1]) = n)

\* C13: the turning points are processed in ascending order of their
\* number, which is the trailing integer of the name and 0 for a name whose
\* suffix is non-numeric or missing: such a turning point is processed
\* before every turning point of a positive number, and turning points of
\* the same number are processed in their order in the input.
C13_NonNumericAsZero ==
    (pc = "markers") =>
        /\ \A a, b \in 1..Len(tp_coords) : a < b =>
              C13_Number(tp_coords[a][1]) <= C13_Number(tp_coords[b][1])
        /\ \A a, b \in 1..Len(tp_coords) :
              (~NumericSuffix(tp_coords[a][1]) /\ NumericSuffix(tp_coords[b][1])
                   /\ TrailingInteger(tp_coords[b][1]) > 0) => a < b
        /\ \A n \in {0, 1, 2, 10} :
              C13_Numbered(tp_coords, n) = C13_Numbered(scan_tp(placemarks), n)

\* "TP 10", "TP x", "TP 2" are processed as "TP x", "TP 2", "TP 10"
C13_Witness ==
    /\ pc = "markers"
    /\ Len(placemarks) = 3
    /\ placemarks[1].name = <<"TP", "10">>
    /\ placemarks[2].name = <<"TP", "x">>
    /\ placemarks[3].name = <<"TP", "2">>
    /\ Len(tp_coords) = 3
    /\ tp_coords[1][1] = <<"TP", "x">>
    /\ tp_coords[2][1] = <<"TP", "2">>
    /\ tp_coords[3][1] = <<"TP", "10">>

(***************************************************************************)
(* generate_corridors_kml: one run over an input document.                 *)
(*                                                                         *)
(* The run calls the classifier, the builder, the projector, the resolver  *)
(* and the locator: their actions above are part of it, and the actions    *)
(* below are the code between the calls.  All coordinates of the input     *)
(* lie on the prime meridian.  A generated feature is                      *)
(* [name, styleUrl, coordinates], coordinates being the list given to      *)
(* format_coordinates; the corridor distance in a corridor line's name is  *)
(* left out.                                                               *)
(***************************************************************************)
MaxPlacemarks == 3   \* placemarks of the input document

DefaultCorridorDistance == 300

Feature(name, styleUrl, coordinates) ==
    [name |-> name, styleUrl |-> styleUrl, coordinates |-> coordinates]

\* linestring is not None
has_linestring(placemark) == placemark.geometry = "LineString"

LineTexts ==
    { << <<"0", "0", "0">>, <<"0", "1000", "0">> >>,       \* 1000 m
      << <<"0", "1e3", "120">>, <<"0", "2000", "120">> >>, \* the next 1000 m, 120 m up
      << <<"0", "0", "0">>, <<"0", "30", "0">> >>,         \* 30 m: dashed
      << <<"0", "0", "0">>, <<"0", "1000", "0">>, <<"0", "2000", "0">> >>,
      << <<"0", "1000">> >>,                               \* no coordinate
      << <<"0", "0", "0">>, <<"0">> >>,                    \* one coordinate
      << <<"0", "x", "0">> >> }                            \* not a number

RunPlacemarks ==
    {Placemark(<<"Track">>, "LineString", text) : text \in LineTexts}
    \cup { Placemark(<<"SP">>, "Point", << <<"0", "0", "0">> >>),
           Placemark(<<"SP">>, "Point", << <<"0", "1000", "0">> >>),
           Placemark(<<"TP", "1">>, "Point", << <<"0", "1000", "0">> >>),
           Placemark(<<"TP", "x">>, "Point", << <<"0", "0", "0">> >>),
           Placemark(<<"TP", "2">>, "Point", << <<"0", "x", "0">> >>),
           Placemark(<<"Note">>, "none", <<>>) }

RunInit ==
    /\ pc = "run"
    /\ i = 0
    /\ placemarks \in SeqsUpTo(RunPlacemarks, MaxPlacemarks)
    /\ document = <<>>
    /\ sp_coord = None
    /\ tp_coords = <<>>
    /\ distance_markers_created = 0
    /\ marker_loop = 0
    /\ corridor_distance = DefaultCorridorDistance
    /\ left_corridor = <<>> /\ right_corridor = <<>> /\ headings = <<>>
    /\ track_coords = <<>>
    /\ ClassifyIdle /\ BuildIdle /\ LocateIdle
    /\ NearestIdle /\ ParseIdle /\ PhotoIdle

\* "Copy ALL original placemarks first"
RunCopy_Tail ==
    /\ pc = "run"
    /\ document' = IF placemarks = <<>> THEN <<>> ELSE Tail(placemarks)
    /\ all_segments' = <<>>
    /\ i' = 0
    /\ pc' = "extract"
    /\ UNCHANGED <<main_track_segments, dashed_connectors, buildVars, track_coords,
                   corridorVars, locateVars, nearestVars, tp_coords, parseVars,
                   placemarks, sp_coord, distance_markers_created, marker_loop,
                   photoVars>>

RunCopy ==
    /\ pc = "run"
    /\ document' = placemarks
    /\ all_segments' = <<>>
    /\ i' = 0
    /\ pc' = "extract"
    /\ UNCHANGED <<main_track_segments, dashed_connectors, buildVars, track_coords,
                   corridorVars, locateVars, nearestVars, tp_coords, parseVars,
                   placemarks, sp_coord, distance_markers_created, marker_loop,
                   photoVars>>

\* the placemark has no LineString, or one of exactly 3 coordinates
\* ("Skip turning point markers")
RunExtractSkip ==
    /\ pc = "extract"
    /\ i < Len(placemarks)
    /\ LET placemark == placemarks[i + 1]
       IN  \/ ~has_linestring(placemark)
           \/ /\ has_linestring(placemark)
              /\ ~parse_coordinates(placemark.text).raised
              /\ Len(parse_coordinates(placemark.text).coords) = 3
    /\ i' = i + 1
    /\ UNCHANGED <<pc, classifyVars, buildVars, track_coords, corridorVars, locateVars,
                   restVars>>

\* all_segments.append({'index': i, ..., 'coordinates': coords, ...})
RunExtractSegment ==
    /\ pc = "extract"
    /\ i < Len(placemarks)
    /\ LET placemark == placemarks[i + 1]
       IN  /\ has_linestring(placemark)
           /\ ~parse_coordinates(placemark.text).raised
           /\ Len(parse_coordinates(placemark.text).coords) # 3
           /\ all_segments' = Append(all_segments,
                                     Segment(i, parse_coordinates(placemark.text).coords))
    /\ i' = i + 1
    /\ UNCHANGED <<pc, main_track_segments, dashed_connectors, buildVars, track_coords,
                   corridorVars, locateVars, restVars>>

\* parse_coordinates(linestring.text) raises ValueError
RunExtractValueError ==
    /\ pc = "extract"
    /\ i < Len(placemarks)
    /\ has_linestring(placemarks[i + 1])
    /\ parse_coordinates(placemarks[i + 1].text).raised
    /\ pc' = "error"
    /\ UNCHANGED <<i, classifyVars, buildVars, track_coords, corridorVars, locateVars,
                   restVars>>

\* the loop over the placemarks is over: "Classify segments"
RunExtractDone ==
    /\ pc = "extract"
    /\ i >= Len(placemarks)
    /\ pc' = "classify"
    /\ UNCHANGED <<i, classifyVars, buildVars, track_coords, corridorVars, locateVars,
                   restVars>>

\* distance_markers_created = 0;
\* continuous_track = build_detailed_continuous_track(main_track_segments)
RunBuildCall_AllSegments ==
    /\ pc = "classified"
    /\ main_segments' = all_segments
    /\ distance_markers_created' = 0
    /\ pc' = "build"
    /\ UNCHANGED <<i, classifyVars, sorted_segments, detailed_track, origin, track_coords,
                   corridorVars, locateVars, nearestVars, tp_coords, parseVars,
                   placemarks, document, sp_coord, marker_loop, photoVars>>

RunBuildCall ==
    /\ pc = "classified"
    /\ main_segments' = main_track_segments
    /\ distance_markers_created' = 0
    /\ pc' = "build"
    /\ UNCHANGED <<i, classifyVars, sorted_segments, detailed_track, origin, track_coords,
                   corridorVars, locateVars, nearestVars, tp_coords, parseVars,
                   placemarks, document, sp_coord, marker_loop, photoVars>>

\* if continuous_track:
track_built_Always(track) == TRUE

track_built(track) == track # <<>>

\* the track is empty: nothing is generated
RunTrackEmpty ==
    /\ pc = "built"
    /\ ~track_built(detailed_track)
    /\ pc' = "write"
    /\ UNCHANGED <<i, classifyVars, buildVars, track_coords, corridorVars, locateVars,
                   restVars>>

\* generate_corridor_for_continuous_track(continuous_track, corridor_distance)
RunCorridorCall ==
    /\ pc = "built"
    /\ track_built(detailed_track)
    /\ track_coords' = detailed_track
    /\ pc' = "corridor"
    /\ UNCHANGED <<i, classifyVars, buildVars, corridorVars, locateVars, restVars>>

\* if left_corridor: ...; if right_corridor: ...
corridor_features(left, right) ==
    (IF left # <<>>
       THEN <<Feature(<<"Left", "Corridor">>, "#leftCorridorStyle", left)>> ELSE <<>>)
    \o (IF right # <<>>
          THEN <<Feature(<<"Right", "Corridor">>, "#rightCorridorStyle", right)>> ELSE <<>>)

RunAppendCorridors ==
    /\ pc = "projected"
    /\ document' = document \o corridor_features(left_corridor, right_corridor)
    /\ pc' = "scan"
    /\ UNCHANGED <<i, classifyVars, buildVars, track_coords, corridorVars, locateVars,
                   nearestVars, tp_coords, parseVars, placemarks, sp_coord,
                   distance_markers_created, marker_loop, photoVars>>

\* if sp_coord: is false
RunSPAbsent_SkipsAll ==
    /\ pc = "markers"
    /\ marker_loop = 0
    /\ sp_coord = None
    /\ pc' = "write"
    /\ UNCHANGED <<i, classifyVars, buildVars, track_coords, corridorVars, locateVars,
                   restVars>>

RunSPAbsent ==
    /\ pc = "markers"
    /\ marker_loop = 0
    /\ sp_coord = None
    /\ marker_loop' = 1
    /\ UNCHANGED <<pc, i, classifyVars, buildVars, track_coords, corridorVars, locateVars,
                   nearestVars, tp_coords, parseVars, placemarks, document, sp_coord,
                   distance_markers_created, photoVars>>

\* sp_track_index = find_point_on_track(continuous_track, sp_coord)
RunSPResolve ==
    /\ pc = "markers"
    /\ marker_loop = 0
    /\ sp_coord # None
    /\ target_point' = sp_coord
    /\ pc' = "nearest"
    /\ UNCHANGED <<i, classifyVars, buildVars, track_coords, corridorVars, locateVars,
                   min_distance, closest_index, tp_coords, parseVars, runVars, photoVars>>

\* tp_track_index = find_point_on_track(continuous_track, tp_coord)
RunTPResolve ==
    /\ pc = "markers"
    /\ marker_loop >= 1
    /\ marker_loop <= Len(tp_coords)
    /\ target_point' = tp_coords[marker_loop][2]
    /\ pc' = "nearest"
    /\ UNCHANGED <<i, classifyVars, buildVars, track_coords, corridorVars, locateVars,
                   min_distance, closest_index, tp_coords, parseVars, runVars, photoVars>>

\* the loop over tp_coords is over
RunMarkersDone ==
    /\ pc = "markers"
    /\ marker_loop > Len(tp_coords)
    /\ pc' = "write"
    /\ UNCHANGED <<i, classifyVars, buildVars, track_coords, corridorVars, locateVars,
                   restVars>>

\* 5 * nautical_mile after SP, nautical_mile after a TP
marker_distance_AlwaysOne(loop) == NauticalMile

marker_distance(loop) == IF loop = 0 THEN 5 * NauticalMile ELSE NauticalMile

\* result = point_at_distance_along_track(continuous_track, index, distance)
RunLocateCall ==
    /\ pc = "resolved"
    /\ start_index' = closest_index
    /\ target_distance_m' = marker_distance(marker_loop)
    /\ pc' = "locate"
    /\ UNCHANGED <<i, classifyVars, buildVars, track_coords, corridorVars, remaining,
                   result, restVars>>

create_perpendicular_marker_at_point(point_on_track, local_bearing_deg, distance) ==
    << project_coordinate(point_on_track, left_bearing(local_bearing_deg), distance),
       project_coordinate(point_on_track, right_bearing(local_bearing_deg), distance) >>

marker_name(loop) ==
    IF loop = 0 THEN <<"5NM", "after", "SP">>
    ELSE <<"1NM", "after">> \o tp_coords[loop][1]

\* if result is not None: the marker placemark is added
RunMarker ==
    /\ pc = "located"
    /\ result # None
    /\ document' = Append(document,
            Feature(marker_name(marker_loop), "#distanceMarkerStyle",
                    create_perpendicular_marker_at_point(result[1], result[2],
                                                         corridor_distance)))
    /\ distance_markers_created' = distance_markers_created + 1
    /\ marker_loop' = marker_loop + 1
    /\ pc' = "markers"
    /\ UNCHANGED <<i, classifyVars, buildVars, track_coords, corridorVars, locateVars,
                   nearestVars, tp_coords, parseVars, placemarks, sp_coord, photoVars>>

\* result is None: no marker for this reference point
RunNoMarker ==
    /\ pc = "located"
    /\ result = None
    /\ marker_loop' = marker_loop + 1
    /\ pc' = "markers"
    /\ UNCHANGED <<i, classifyVars, buildVars, track_coords, corridorVars, locateVars,
                   nearestVars, tp_coords, parseVars, placemarks, document, sp_coord,
                   distance_markers_created, photoVars>>

\* tree_out.write(output_filename, ...)
RunWrite ==
    /\ pc = "write"
    /\ pc' = "done"
    /\ UNCHANGED <<i, classifyVars, buildVars, track_coords, corridorVars, locateVars,
                   restVars>>

\* find_point_on_track is only called with a track that is not empty, so
\* NearestEmpty is no step of a run
RunNext ==
    \/ RunCopy
    \/ RunExtractSkip
    \/ RunExtractSegment
    \/ RunExtractValueError
    \/ RunExtractDone
    \/ ClassifyMain
    \/ ClassifyDashed
    \/ RunBuildCall
    \/ BuildNext
    \/ RunTrackEmpty
    \/ RunCorridorCall
    \/ CorridorNext
    \/ RunAppendCorridors
    \/ ScanNext
    \/ RunSPAbsent
    \/ RunSPResolve
    \/ RunTPResolve
    \/ RunMarkersDone
    \/ NearestStart
    \/ NearestCloser
    \/ NearestPass
    \/ NearestReturn
    \/ RunLocateCall
    \/ LocateNext
    \/ RunMarker
    \/ RunNoMarker
    \/ RunWrite

SpecRun == RunInit /\ [][RunNext]_vars

(***************************************************************************)
(* Properties of a run                                                     *)
(***************************************************************************)
\* every coordinate field the run converts is a numeral
AllNumerals ==
    \A k \in 1..Len(placemarks) :
        \A e \in 1..Len(placemarks[k].text) :
            Len(placemarks[k].text[e]) >= 3 =>
                \A f \in 1..3 : placemarks[k].text[e][f] \in FloatTexts

\* C15 as stated: no run aborts on partial or missing geometry, whatever
\* number of valid coordinates its LineStrings have.
C15_NeverAborts ==
    AllNumerals => pc # "error"

\* classification is over and has left no main-track segment
ZeroMainSegments ==
    /\ pc \notin {"run", "extract", "classify", "error"}
    /\ main_track_segments = <<>>

C16_Skipped ==
    ZeroMainSegments =>
        /\ detailed_track = <<>>
        /\ track_coords = <<>>
        /\ document = placemarks
        /\ distance_markers_created = 0
        /\ (pc = "done" \/ ENABLED RunNext)

C16_NoFailure ==
    ZeroMainSegments => pc' # "error"

\* C16: with zero main-track segments the Track is empty, the document holds
\* the input placemarks and nothing else, no marker was made, and no step
\* fails: the run goes on until it is done.
C16_EmptyTrackCompletes == []C16_Skipped /\ [][C16_NoFailure]_vars

\* a dashed connector, an SP and a TP, and no main-track segment
C16_Witness ==
    /\ pc = "done"
    /\ main_track_segments = <<>>
    /\ dashed_connectors # <<>>
    /\ \E k \in 1..Len(placemarks) : has_coord(placemarks[k]) /\ placemarks[k].name = <<"SP">>
    /\ \E k \in 1..Len(placemarks) : has_coord(placemarks[k]) /\ placemarks[k].name = <<"TP", "1">>
    /\ document = placemarks

\* a feature the run generated
Generated(feature) == "styleUrl" \in DOMAIN feature

\* once copied, the input placemarks are the first features of the
\* document, in their order, and every later feature is a generated one
C18_Originals ==
    (pc # "run") =>
        /\ Len(document) >= Len(placemarks)
        /\ SubSeq(document, 1, Len(placemarks)) = placemarks
        /\ \A k \in (Len(placemarks) + 1)..Len(document) : Generated(document[k])

\* a step keeps the input and, after the copy, only appends to the document
C18_Step ==
    /\ placemarks' = placemarks
    /\ (pc # "run") =>
          /\ Len(document') >= Len(document)
          /\ SubSeq(document', 1, Len(document)) = document

\* C18: every input placemark is in the document exactly once, at its
\* original position and before every generated feature; generation only
\* appends features.
C18_PassThrough == []C18_Originals /\ [][C18_Step]_vars

\* three placemarks, two corridor lines and two markers
C18_Witness ==
    /\ pc = "done"
    /\ Len(placemarks) = 3
    /\ Len(document) = 7
    /\ SubSeq(document, 1, 3) = placemarks
    /\ \A k \in 4..7 : Generated(document[k])

\* the lowest 0-based Track index of minimal distance to point
ResolvedIndex(point) ==
    CHOOSE k \in 0..(Len(track_coords) - 1) :
        /\ \A j \in 0..(Len(track_coords) - 1) :
              calculate_distance(track_coords[k + 1], point)
                  <= calculate_distance(track_coords[j + 1], point)
        /\ \A j \in 0..(k - 1) :
              calculate_distance(track_coords[j + 1], point)
                  > calculate_distance(track_coords[k + 1], point)

\* the point and bearing at distance past the 0-based index start: on the
\* first leg where the summed length reaches distance, or the last Track
\* point with the bearing of the final leg when the Track is shorter
LocationPast(start, distance) ==
    LET n == Len(track_coords)
    IN  IF distance > SumLegs(start + 1, n - 1)
          THEN <<track_coords[n], calculate_bearing(track_coords[n - 1], track_coords[n])>>
        ELSE LET k == CHOOSE k \in (start + 1)..(n - 1) :
                          /\ SumLegs(start + 1, k) >= distance
                          /\ SumLegs(start + 1, k - 1) < distance
                 bearing == calculate_bearing(track_coords[k], track_coords[k + 1])
             IN  <<project_coordinate(track_coords[k], bearing,
                                      distance - SumLegs(start + 1, k - 1)), bearing>>

\* the 2-point marker across the track for a reference point
MarkerLine(point, distance) ==
    LET location == LocationPast(ResolvedIndex(point), distance)
    IN  << project_coordinate(location[1], (location[2] + 270) % 360, corridor_distance),
           project_coordinate(location[1], (location[2] + 90) % 360, corridor_distance) >>

\* the reference points found, SP first, then the turning points in the
\* order they are processed in
SPReference ==
    IF sp_coord = None THEN <<>>
    ELSE <<[name |-> <<"5NM", "after", "SP">>, point |-> sp_coord, distance |-> 9260]>>

TPReferences ==
    [k \in 1..Len(tp_coords) |->
        [name |-> <<"1NM", "after">> \o tp_coords[k][1], point |-> tp_coords[k][2],
         distance |-> 1852]]

\* the reference point resolves to an index before the last Track index
BeforeLast(reference) == ResolvedIndex(reference.point) < Len(track_coords) - 1

MarkerFeatures(references) ==
    [k \in 1..Len(references) |->
        [name |-> references[k].name, styleUrl |-> "#distanceMarkerStyle",
         coordinates |-> MarkerLine(references[k].point, references[k].distance)]]

\* the two corridor lines, one point per Track point each
CorridorLines ==
    << [name |-> <<"Left", "Corridor">>, styleUrl |-> "#leftCorridorStyle",
        coordinates |-> left_corridor],
       [name |-> <<"Right", "Corridor">>, styleUrl |-> "#rightCorridorStyle",
        coordinates |-> right_corridor] >>

\* a run is done and had a Track of at least 2 points
DoneWithTrack == pc = "done" /\ Len(track_coords) >= 2

\* C12 as stated: one marker for every reference point found.
C12_MarkerPerReference ==
    DoneWithTrack =>
        /\ Len(left_corridor) = Len(track_coords)
        /\ Len(right_corridor) = Len(track_coords)
        /\ document = placemarks \o CorridorLines
                          \o MarkerFeatures(SPReference \o TPReferences)

\* C12: after the input placemarks the document holds the two corridor
\* lines and then one 2-point marker for every reference point that resolves
\* to an index before the last Track index: for SP 9,260 m past its
\* resolved index, then for the turning points, in their processing order,
\* 1,852 m past theirs; a reference point that resolves to the last index
\* has no marker.
C12_MarkerPerReferenceBeforeLast ==
    DoneWithTrack =>
        /\ Len(left_corridor) = Len(track_coords)
        /\ Len(right_corridor) = Len(track_coords)
        /\ document = placemarks \o CorridorLines
                          \o MarkerFeatures(SelectSeq(SPReference \o TPReferences, BeforeLast))
        /\ distance_markers_created
               = Len(SelectSeq(SPReference \o TPReferences, BeforeLast))

\* a Track of 0 and 1000 m with SP and "TP x" at 0 m: both markers lie
\* across the last Track point, the SP marker first
C12_Witness ==
    /\ DoneWithTrack
    /\ Len(track_coords) = 2
    /\ sp_coord # None
    /\ Len(tp_coords) = 1
    /\ Len(document) = Len(placemarks) + 4
    /\ document[Len(document) - 1].name = <<"5NM", "after", "SP">>
    /\ document[Len(document) - 1].coordinates[1].from.lat = 1000
    /\ document[Len(document)].name = <<"1NM", "after", "TP", "x">>
    /\ document[Len(document)].coordinates[1].from.lat = 1000

\* C17: a run with a Track of at least 2 points and no SP ends with the two
\* corridor lines and the markers of its turning points, one with no
\* turning point ends with the two corridor lines and the marker of its SP,
\* and in the marker stage of either no step is missing or fails.
C17_MissingCategorySkipped ==
    /\ (DoneWithTrack /\ sp_coord = None) =>
          document = placemarks \o CorridorLines
                         \o MarkerFeatures(SelectSeq(TPReferences, BeforeLast))
    /\ (DoneWithTrack /\ tp_coords = <<>>) =>
          document = placemarks \o CorridorLines
                         \o MarkerFeatures(SelectSeq(SPReference, BeforeLast))
    /\ (/\ pc \in {"markers", "nearest", "nearest_loop", "resolved", "locate",
                   "locate_loop", "located", "write"}
        /\ (sp_coord = None \/ tp_coords = <<>>)) => ENABLED RunNext

\* no SP, two turning points, one of them with a marker
C17_Witness ==
    /\ DoneWithTrack
    /\ sp_coord = None
    /\ Len(tp_coords) = 2
    /\ distance_markers_created = 1
    /\ document[Len(document)].name = <<"1NM", "after", "TP", "x">>

(***************************************************************************)
(* photo-helper service: sessions and the reorder request.                 *)
(*                                                                         *)
(* A session is [version, mode, layout_mode, track_sets,                   *)
(* turningpoint_sets]; its id is its key in sessions and on disk, and its  *)
(* timestamps and competition name are left out.  A photo is the dict of   *)
(* its metadata, of which the id is kept.                                  *)
(***************************************************************************)
\* PhotoMetadata.to_dict: the id and the canvas state of a photo
Photo(id) == [id |-> id, canvasState |-> "default"]

PhotoSet(title, photos) == [title |-> title, photos |-> photos]

\* a maximum of 10 photos in either layout
get_max_photos_per_set_Ten(layout_mode) == 10

\* 10 if layout_mode == 'portrait' else 9
get_max_photos_per_set(layout_mode) == IF layout_mode = "portrait" THEN 10 ELSE 9

\* PhotoSession.sets
sets(session) ==
    IF session.mode = "turningpoint" THEN session.turningpoint_sets
    ELSE session.track_sets

\* PhotoSession.to_dict, as save_session writes it
to_dict(session) ==
    [version |-> session.version, mode |-> session.mode,
     layoutMode |-> session.layout_mode,
     competition_name |-> session.competition_name, sets |-> sets(session),
     track_sets |-> session.track_sets,
     turningpoint_sets |-> session.turningpoint_sets]

\* the session load_session makes of a session file: of the new structure,
\* or of the old one, whose sets become the track sets
from_dict(data) ==
    IF "track_sets" \in DOMAIN data /\ "turningpoint_sets" \in DOMAIN data
      THEN [version |-> data.version, mode |-> data.mode,
            layout_mode |-> data.layoutMode,
            competition_name |-> data.competition_name,
            track_sets |-> data.track_sets,
            turningpoint_sets |-> data.turningpoint_sets]
    ELSE [version |-> data.version, mode |-> data.mode,
          layout_mode |-> data.layoutMode,
          competition_name |-> data.competition_name,
          track_sets |->
              [set1 |-> PhotoSet(IF data.sets.set1.title = "" THEN "SP - TPX"
                                 ELSE data.sets.set1.title, data.sets.set1.photos),
               set2 |-> PhotoSet(IF data.sets.set2.title = "" THEN "TPX - FP"
                                 ELSE data.sets.set2.title, data.sets.set2.photos)],
          turningpoint_sets |-> [set1 |-> PhotoSet("", <<>>), set2 |-> PhotoSet("", <<>>)]]

\* sessions after load_session(session_id): a session found on disk only is
\* put into sessions
load_session(session_id) ==
    IF session_id \in DOMAIN sessions THEN sessions
    ELSE IF session_id \in DOMAIN disk
      THEN [s \in DOMAIN sessions \cup {session_id} |->
               IF s = session_id THEN from_dict(disk[s]) ELSE sessions[s]]
    ELSE sessions

\* load_session returns a session
found(session_id) == session_id \in DOMAIN load_session(session_id)

Max(a, b) == IF a > b THEN a ELSE b
Min(a, b) == IF a < b THEN a ELSE b

\* slots = [None] * max_photos, filled from current
slot_array(current, max_photos) ==
    [k \in 1..max_photos |-> IF k <= Len(current) THEN current[k] ELSE None]

\* [p for i, p in enumerate(slots) if p is not None and i != from_index]
RECURSIVE compact_without(_, _)
compact_without(slots, from_index) ==
    IF slots = <<>> THEN <<>>
    ELSE LET k == Len(slots)
             front == compact_without(SubSeq(slots, 1, k - 1), from_index)
         IN  IF slots[k] # None /\ k - 1 # from_index THEN Append(front, slots[k])
             ELSE front

\* insertion index in the compact list
insert_idx(from_index, to_index, length) ==
    IF from_index < to_index THEN Max(0, Min(length, to_index - 1))
    ELSE Max(0, Min(length, to_index))

\* list.insert(index, item)
insert(list, index, item) ==
    SubSeq(list, 1, index) \o <<item>> \o SubSeq(list, index + 1, Len(list))

\* the photos after the move, without the overflow
reordered_VisibleOnly(current, from_index, to_index, max_photos) ==
    LET slots == slot_array(current, max_photos)
        moving == slots[from_index + 1]
        compact == compact_without(slots, from_index)
        moved == insert(compact, insert_idx(from_index, to_index, Len(compact)), moving)
    IN  SubSeq(moved, 1, Min(max_photos, Len(moved)))

\* session.sets[set_key]["photos"] after the move
reordered(current, from_index, to_index, max_photos) ==
    LET slots == slot_array(current, max_photos)
        moving == slots[from_index + 1]
        compact == compact_without(slots, from_index)
        moved == insert(compact, insert_idx(from_index, to_index, Len(compact)), moving)
        visible == SubSeq(moved, 1, Min(max_photos, Len(moved)))
        overflow == SubSeq(current, max_photos + 1, Len(current))
    IN  visible \o overflow

\* the session with the photos of set_key of the track sets replaced
with_photos_TrackOnly(session, set_key, photos) ==
    [session EXCEPT !.track_sets[set_key].photos = photos]

\* the session with the photos of set_key, in the current mode, replaced
with_photos(session, set_key, photos) ==
    IF session.mode = "turningpoint"
      THEN [session EXCEPT !.turningpoint_sets[set_key].photos = photos]
    ELSE [session EXCEPT !.track_sets[set_key].photos = photos]

\* a stored session: up to 10 photos in set1 of the current mode (10 were
\* uploaded in portrait layout), 2 in its set2 and 1 in the other mode
StoredSession(mode, layout_mode, count) ==
    LET current == [set1 |-> PhotoSet("A", [k \in 1..count |-> Photo(k)]),
                    set2 |-> PhotoSet("B", <<Photo(11), Photo(12)>>)]
        other == [set1 |-> PhotoSet("C", <<Photo(21)>>), set2 |-> PhotoSet("D", <<>>)]
    IN  [version |-> 1 + count + 3 + 4, mode |-> mode, layout_mode |-> layout_mode,
         competition_name |-> "",
         track_sets |-> IF mode = "track" THEN current ELSE other,
         turningpoint_sets |-> IF mode = "track" THEN other ELSE current]

\* the ids of the photos of a sequence, and of all the sets of a session
ids_of(photos) == {photos[k].id : k \in 1..Len(photos)}
photo_ids(session) ==
    UNION {ids_of(session.track_sets[k].photos) \cup ids_of(session.turningpoint_sets[k].photos) :
           k \in {"set1", "set2"}}

ReorderRequests ==
    [session_id : {"s1", "s2"}, set_key : {"set1", "set2", "set3"},
     from_index : -1..10, to_index : -1..10]

\* the session "s1" was saved; it is in memory, or on disk only
ReorderInit ==
    /\ pc = "reorder"
    /\ i = 0
    /\ \E mode \in {"track", "turningpoint"}, layout_mode \in {"landscape", "portrait"},
          count \in 0..10 :
          /\ disk = [s \in {"s1"} |-> to_dict(StoredSession(mode, layout_mode, count))]
          /\ \/ sessions = [s \in {"s1"} |-> StoredSession(mode, layout_mode, count)]
             \/ sessions = <<>>
          /\ photos_dir = photo_ids(StoredSession(mode, layout_mode, count))
    /\ request \in ReorderRequests
    /\ response = None
    /\ track_coords = <<>>
    /\ ClassifyIdle /\ BuildIdle /\ CorridorIdle /\ LocateIdle
    /\ NearestIdle /\ SortIdle /\ ParseIdle /\ RunIdle

Answer(status, detail) == [status |-> status, detail |-> detail]

\* a handler has returned or raised, with sessions, disk and photo files as
\* given
RespondedWith(status, detail, sessions_after, disk_after, photos_after) ==
    /\ response' = Answer(status, detail)
    /\ sessions' = sessions_after
    /\ disk' = disk_after
    /\ photos_dir' = photos_after
    /\ pc' = "responded"
    /\ UNCHANGED <<i, classifyVars, buildVars, track_coords, corridorVars, locateVars,
                   nearestVars, tp_coords, parseVars, runVars, request>>

\* the reorder handler has returned or raised, with sessions and disk as given
Responded(status, detail, sessions_after, disk_after) ==
    RespondedWith(status, detail, sessions_after, disk_after, photos_dir)

\* if not session: 404
ReorderNotFound ==
    /\ pc = "reorder"
    /\ ~found(request.session_id)
    /\ Responded(404, "Session not found", load_session(request.session_id), disk)

\* if set_key not in ["set1", "set2"]: 400
ReorderInvalidSetKey ==
    /\ pc = "reorder"
    /\ found(request.session_id)
    /\ request.set_key \notin {"set1", "set2"}
    /\ Responded(400, "Invalid set_key", load_session(request.session_id), disk)

\* the session and the numbers the handler works with, once the session is
\* found and the set key is valid
reorder_session == load_session(request.session_id)[request.session_id]
reorder_max_photos == get_max_photos_per_set(reorder_session.layout_mode)
reorder_current == sets(reorder_session)[request.set_key].photos

\* from_index or to_index outside 0..max_index
indices_invalid ==
    LET max_index == reorder_max_photos - 1
    IN  \/ request.from_index < 0 \/ request.from_index > max_index
        \/ request.to_index < 0 \/ request.to_index > max_index

\* if from_index < 0 or ...: 400
ReorderInvalidIndices ==
    /\ pc = "reorder"
    /\ found(request.session_id)
    /\ request.set_key \in {"set1", "set2"}
    /\ indices_invalid
    /\ Responded(400, "Invalid indices", load_session(request.session_id), disk)

\* if from_index == to_index: "No change needed"
ReorderNoChange ==
    /\ pc = "reorder"
    /\ found(request.session_id)
    /\ request.set_key \in {"set1", "set2"}
    /\ ~indices_invalid
    /\ request.from_index = request.to_index
    /\ Responded(200, "No change needed", load_session(request.session_id), disk)

\* if moving is None: 400
ReorderEmptySource ==
    /\ pc = "reorder"
    /\ found(request.session_id)
    /\ request.set_key \in {"set1", "set2"}
    /\ ~indices_invalid
    /\ request.from_index # request.to_index
    /\ slot_array(reorder_current, reorder_max_photos)[request.from_index + 1] = None
    /\ Responded(400, "Cannot move from empty position",
                 load_session(request.session_id), disk)

\* the photos are reordered, the version goes up, save_session(session)
ReorderMove ==
    /\ pc = "reorder"
    /\ found(request.session_id)
    /\ request.set_key \in {"set1", "set2"}
    /\ ~indices_invalid
    /\ request.from_index # request.to_index
    /\ slot_array(reorder_current, reorder_max_photos)[request.from_index + 1] # None
    /\ LET moved == with_photos(reorder_session, request.set_key,
                                reordered(reorder_current, request.from_index,
                                          request.to_index, reorder_max_photos))
           saved == [moved EXCEPT !.version = @ + 1]
       IN  Responded(200, "Photos reordered successfully (move)",
                     [load_session(request.session_id) EXCEPT ![request.session_id] = saved],
                     [disk EXCEPT ![request.session_id] = to_dict(saved)])

ReorderNext ==
    \/ ReorderNotFound
    \/ ReorderInvalidSetKey
    \/ ReorderInvalidIndices
    \/ ReorderNoChange
    \/ ReorderEmptySource
    \/ ReorderMove

SpecReorder == ReorderInit /\ [][ReorderNext]_vars

(***************************************************************************)
(* Properties of the reorder request                                       *)
(***************************************************************************)
\* MOVE in the logical slot array: the item at from_index is removed, put in
\* at to_index, the gaps are compacted, and the overflow follows
MoveInSlots(current, from_index, to_index, max_photos) ==
    LET slots == slot_array(current, max_photos)
        removed == SubSeq(slots, 1, from_index) \o SubSeq(slots, from_index + 2, max_photos)
        inserted == SubSeq(removed, 1, to_index) \o <<slots[from_index + 1]>>
                        \o SubSeq(removed, to_index + 1, Len(removed))
    IN  SelectSeq(inserted, LAMBDA p : p # None)
            \o SubSeq(current, max_photos + 1, Len(current))

C20_Step ==
    (/\ pc = "reorder"
     /\ pc' = "responded"
     /\ response'.status = 200
     /\ request.from_index # request.to_index)
    => sets(sessions'[request.session_id])[request.set_key].photos
           = MoveInSlots(reorder_current, request.from_index, request.to_index,
                         reorder_max_photos)

\* C20 as stated: after a successful reorder with from_index # to_index the
\* photo list of the set is the one MOVE in the slot array gives.
C20_MoveSemantics == [][C20_Step]_vars

(***************************************************************************)
(* Properties of the Track of a run                                        *)
(***************************************************************************)
\* the coordinates parsed from input placemark number index (0-based)
PlacemarkCoords(index) == parse_coordinates(placemarks[index + 1].text).coords

\* the placemark is a LineString that is neither a 3-coordinate one nor a
\* dashed connector
MainTrackLine(index) ==
    /\ has_linestring(placemarks[index + 1])
    /\ Len(PlacemarkCoords(index)) # 3
    /\ ~(/\ Len(PlacemarkCoords(index)) = 2
         /\ calculate_distance(PlacemarkCoords(index)[1], PlacemarkCoords(index)[2]) < 500)

\* C23: every point the builder has put into the Track is a coordinate of
\* an input LineString that has not exactly 3 coordinates and is no dashed
\* connector; nothing of any other placemark is in the Track.
C23_OnlyMainSegments ==
    (pc \notin {"run", "extract", "classify", "classify_dashed", "classified"}) =>
        /\ Len(origin) = Len(detailed_track)
        /\ \A k \in 1..Len(detailed_track) :
              /\ origin[k].seg \in 0..(Len(placemarks) - 1)
              /\ MainTrackLine(origin[k].seg)
              /\ detailed_track[k] = PlacemarkCoords(origin[k].seg)[origin[k].pos]

\* a 3-coordinate LineString, a dashed connector and a main segment: the
\* Track is the main segment
C23_Witness ==
    /\ pc = "done"
    /\ Len(placemarks) = 3
    /\ Len(PlacemarkCoords(0)) = 3
    /\ dashed_connectors # <<>> /\ dashed_connectors[1].index = 1
    /\ MainTrackLine(2)
    /\ track_coords = PlacemarkCoords(2)
    /\ Len(track_coords) = 2

\* a Track of fewer than 2 points has been built
ShortTrack ==
    /\ pc \notin {"run", "extract", "classify", "classify_dashed", "classified", "build",
                  "build_loop", "error"}
    /\ Len(detailed_track) < 2

\* C24: with a Track of fewer than 2 points the projector has returned two
\* empty sequences, the locator returns no result, and the document holds
\* the input placemarks only: no corridor line and no marker.
C24_NoGeometry ==
    ShortTrack =>
        /\ left_corridor = <<>>
        /\ right_corridor = <<>>
        /\ (pc = "located") => result = None
        /\ distance_markers_created = 0
        /\ document = placemarks

\* a Track of one point, with an SP and a TP that resolve to it
C24_Witness ==
    /\ pc = "done"
    /\ Len(track_coords) = 1
    /\ sp_coord # None
    /\ Len(tp_coords) = 1
    /\ marker_loop = 2
    /\ document = placemarks

(***************************************************************************)
(* Properties of the altitude                                              *)
(***************************************************************************)
\* the altitude of the Track point that starts the leg in which the point
\* at distance past the 0-based index start lies, or of the last Track point
\* when the Track is shorter
LegStartAltitude(start, distance) ==
    LET n == Len(track_coords)
    IN  IF distance > SumLegs(start + 1, n - 1) THEN track_coords[n].alt
        ELSE track_coords[CHOOSE k \in (start + 1)..(n - 1) :
                              /\ SumLegs(start + 1, k) >= distance
                              /\ SumLegs(start + 1, k - 1) < distance].alt

\* the reference points that have a marker, in the order of their markers
MarkedReferences == SelectSeq(SPReference \o TPReferences, BeforeLast)

\* C25: every corridor point has the altitude of the Track point of its
\* index, the point the locator returns has the altitude of the Track point
\* that starts its leg (of the last Track point on exhaustion), and both
\* points of every marker have that altitude.
C25_AltitudeCarried ==
    /\ \A k \in 1..Len(left_corridor) :
          /\ left_corridor[k].alt = track_coords[k].alt
          /\ right_corridor[k].alt = track_coords[k].alt
    /\ (pc = "located" /\ result # None) =>
          result[1].alt = LegStartAltitude(start_index, target_distance_m)
    /\ DoneWithTrack =>
          /\ Len(document) = Len(placemarks) + 2 + Len(MarkedReferences)
          /\ \A k \in 1..Len(MarkedReferences) :
                LET marker == document[Len(placemarks) + 2 + k].coordinates
                    altitude == LegStartAltitude(ResolvedIndex(MarkedReferences[k].point),
                                                 MarkedReferences[k].distance)
                IN  /\ Len(marker) = 2
                    /\ marker[1].alt = altitude
                    /\ marker[2].alt = altitude

\* a Track at 0, 0 and 120 m of altitude: the marker of "TP x", 852 m into
\* the leg that climbs, is at 0 m, the third corridor point at 120 m
C25_Witness ==
    /\ DoneWithTrack
    /\ Len(track_coords) = 3
    /\ track_coords[2].alt = 0
    /\ track_coords[3].alt = 120
    /\ left_corridor[3].alt = 120
    /\ Len(tp_coords) = 1
    /\ document[Len(document)].name = <<"1NM", "after", "TP", "x">>
    /\ document[Len(document)].coordinates[1].from.lat = 1852
    /\ document[Len(document)].coordinates[1].alt = 0
    /\ document[Len(document)].coordinates[2].alt = 0

(***************************************************************************)
(* The reorder request of the photo organizer (backend/main.py), whose     *)
(* sessions hold one pair of sets of at most 9 photos                      *)
(***************************************************************************)
MAX_PHOTOS_PER_SET == 9

\* PhotoSession of the organizer, as it is in memory and as to_dict and
\* save_session write it: count photos in set1, 2 in set2
OrganizerSession(count) ==
    [version |-> 1 + count + 2,
     sets |-> [set1 |-> PhotoSet("", [k \in 1..count |-> Photo(k)]),
               set2 |-> PhotoSet("", <<Photo(11), Photo(12)>>)]]

\* sessions after load_session(session_id) of the organizer
organizer_load_session(session_id) ==
    IF session_id \in DOMAIN sessions THEN sessions
    ELSE IF session_id \in DOMAIN disk
      THEN [s \in DOMAIN sessions \cup {session_id} |->
               IF s = session_id THEN disk[s] ELSE sessions[s]]
    ELSE sessions

organizer_found(session_id) == session_id \in DOMAIN organizer_load_session(session_id)

SwapRequests ==
    [session_id : {"s1", "s2"}, set_key : {"set1", "set2", "set3"},
     from_index : -1..9, to_index : -1..9]

\* the session "s1" was saved; it is in memory, or on disk only
SwapInit ==
    /\ pc = "swap"
    /\ i = 0
    /\ \E count \in 0..MAX_PHOTOS_PER_SET :
          /\ disk = [s \in {"s1"} |-> OrganizerSession(count)]
          /\ \/ sessions = [s \in {"s1"} |-> OrganizerSession(count)]
             \/ sessions = <<>>
          /\ photos_dir = ids_of(OrganizerSession(count).sets.set1.photos)
                              \cup ids_of(OrganizerSession(count).sets.set2.photos)
    /\ request \in SwapRequests
    /\ response = None
    /\ track_coords = <<>>
    /\ ClassifyIdle /\ BuildIdle /\ CorridorIdle /\ LocateIdle
    /\ NearestIdle /\ SortIdle /\ ParseIdle /\ RunIdle

\* if not session: 404
SwapNotFound ==
    /\ pc = "swap"
    /\ ~organizer_found(request.session_id)
    /\ Responded(404, "Session not found", organizer_load_session(request.session_id), disk)

\* if set_key not in ["set1", "set2"]: 400
SwapInvalidSetKey ==
    /\ pc = "swap"
    /\ organizer_found(request.session_id)
    /\ request.set_key \notin {"set1", "set2"}
    /\ Responded(400, "Invalid set_key", organizer_load_session(request.session_id), disk)

\* from_index < 0 or from_index > 8 or to_index < 0 or to_index > 8
swap_indices_invalid ==
    \/ request.from_index < 0 \/ request.from_index > 8
    \/ request.to_index < 0 \/ request.to_index > 8

\* the session and the photos the handler works with
swap_session == organizer_load_session(request.session_id)[request.session_id]
swap_photos == swap_session.sets[request.set_key].photos

\* photo_slots = [None] * 9, filled from photos
photo_slots(photos) == [k \in 1..9 |-> IF k <= Len(photos) THEN photos[k] ELSE None]

\* if from_index < 0 or ...: 400
SwapInvalidIndices ==
    /\ pc = "swap"
    /\ organizer_found(request.session_id)
    /\ request.set_key \in {"set1", "set2"}
    /\ swap_indices_invalid
    /\ Responded(400, "Invalid indices", organizer_load_session(request.session_id), disk)

\* if from_index == to_index: "No change needed"
SwapNoChange ==
    /\ pc = "swap"
    /\ organizer_found(request.session_id)
    /\ request.set_key \in {"set1", "set2"}
    /\ ~swap_indices_invalid
    /\ request.from_index = request.to_index
    /\ Responded(200, "No change needed", organizer_load_session(request.session_id), disk)

\* if source_photo is None: 400
SwapEmptySource ==
    /\ pc = "swap"
    /\ organizer_found(request.session_id)
    /\ request.set_key \in {"set1", "set2"}
    /\ ~swap_indices_invalid
    /\ request.from_index # request.to_index
    /\ photo_slots(swap_photos)[request.from_index + 1] = None
    /\ Responded(400, "Cannot move from empty position",
                 organizer_load_session(request.session_id), disk)

\* photo_slots after the swap with a photo, or the move to an empty slot
swapped_slots(slots, from_index, to_index) ==
    IF slots[to_index + 1] # None
      THEN [k \in 1..9 |-> IF k = from_index + 1 THEN slots[to_index + 1]
                           ELSE IF k = to_index + 1 THEN slots[from_index + 1]
                           ELSE slots[k]]
    ELSE [k \in 1..9 |-> IF k = from_index + 1 THEN None
                         ELSE IF k = to_index + 1 THEN slots[from_index + 1]
                         ELSE slots[k]]

\* [photo for photo in photo_slots if photo is not None]
RECURSIVE not_none(_)
not_none(slots) ==
    IF slots = <<>> THEN <<>>
    ELSE LET k == Len(slots)
             front == not_none(SubSeq(slots, 1, k - 1))
         IN  IF slots[k] # None THEN Append(front, slots[k]) ELSE front

\* the slots are swapped or the photo moved, the list is rebuilt without
\* the empty slots, the version goes up, save_session(session)
SwapReorder ==
    /\ pc = "swap"
    /\ organizer_found(request.session_id)
    /\ request.set_key \in {"set1", "set2"}
    /\ ~swap_indices_invalid
    /\ request.from_index # request.to_index
    /\ photo_slots(swap_photos)[request.from_index + 1] # None
    /\ LET saved == [swap_session EXCEPT
                        !.sets[request.set_key].photos =
                            not_none(swapped_slots(photo_slots(swap_photos),
                                                   request.from_index, request.to_index)),
                        !.version = @ + 1]
       IN  Responded(200, "Photos reordered successfully",
                     [organizer_load_session(request.session_id)
                          EXCEPT ![request.session_id] = saved],
                     [disk EXCEPT ![request.session_id] = saved])

SwapNext ==
    \/ SwapNotFound
    \/ SwapInvalidSetKey
    \/ SwapInvalidIndices
    \/ SwapNoChange
    \/ SwapEmptySource
    \/ SwapReorder

SpecSwap == SwapInit /\ [][SwapNext]_vars

(***************************************************************************)
(* Properties of the reorder request of the organizer                      *)
(***************************************************************************)
\* a reorder with from_index # to_index has succeeded
SwapDone ==
    /\ pc = "swap"
    /\ pc' = "responded"
    /\ response'.status = 200
    /\ request.from_index # request.to_index

\* the photos of the set after the request
swap_photos_after == sessions'[request.session_id].sets[request.set_key].photos

\* the target slot holds a photo: the two photos have exchanged positions,
\* every other photo is where it was, and only the order has changed
SwapExchanges ==
    (SwapDone /\ request.to_index < Len(swap_photos)) =>
        /\ Len(swap_photos_after) = Len(swap_photos)
        /\ swap_photos_after[request.from_index + 1] = swap_photos[request.to_index + 1]
        /\ swap_photos_after[request.to_index + 1] = swap_photos[request.from_index + 1]
        /\ \A k \in 1..Len(swap_photos) :
              k \notin {request.from_index + 1, request.to_index + 1}
                  => swap_photos_after[k] = swap_photos[k]
        /\ photos_dir' = photos_dir

\* the target slot is empty: the source photo is at position to_index
SwapMovesToIndex ==
    (SwapDone /\ request.to_index >= Len(swap_photos)) =>
        /\ request.to_index + 1 \in DOMAIN swap_photos_after
        /\ swap_photos_after[request.to_index + 1] = swap_photos[request.from_index + 1]
        /\ photos_dir' = photos_dir

\* the swap half of the reorder alone
C22_SwapHalf == [][SwapExchanges]_vars

\* C22 as stated: a reorder onto a photo exchanges the two photos and
\* leaves every other photo in place, a reorder onto an empty slot leaves
\* the source photo at position to_index, and only the order changes.
C22_SwapOrMoveToIndex == [][SwapExchanges /\ SwapMovesToIndex]_vars

(***************************************************************************)
(* Properties of the photos of a reordered set                             *)
(***************************************************************************)
\* a reorder request has succeeded
ReorderDone ==
    /\ pc = "reorder"
    /\ pc' = "responded"
    /\ response'.status = 200

\* the session after the request, and the photos of the set of the request
reorder_session_after == sessions'[request.session_id]
reorder_after == sets(reorder_session_after)[request.set_key].photos

\* the set key that the request does not name
other_set_key == IF request.set_key = "set1" THEN "set2" ELSE "set1"

C27_Step ==
    ReorderDone =>
        /\ Len(reorder_after) = Len(reorder_current)
        /\ ids_of(reorder_after) = ids_of(reorder_current)
        /\ Cardinality(ids_of(reorder_after)) = Len(reorder_after)
        /\ {reorder_after[k] : k \in 1..Len(reorder_after)}
               = {reorder_current[k] : k \in 1..Len(reorder_current)}
        /\ \A k \in (reorder_max_photos + 1)..Len(reorder_current) :
              reorder_after[k] = reorder_current[k]
        /\ sets(reorder_session_after)[other_set_key]
               = sets(reorder_session)[other_set_key]

\* C27: a successful reorder leaves the set with the same photos, as many
\* as before and each once, leaves every photo at an index >= the maximum
\* of the layout where it was, and leaves the other set as it was.
C27_Permutation == [][C27_Step]_vars

\* 10 photos in landscape layout: the first one has been moved, the tenth
\* is where it was
C27_Witness ==
    /\ pc = "responded"
    /\ response.status = 200
    /\ request.set_key = "set1"
    /\ request.from_index = 0
    /\ request.to_index = 8
    /\ sessions["s1"].layout_mode = "landscape"
    /\ Len(sets(sessions["s1"]).set1.photos) = 10
    /\ sets(sessions["s1"]).set1.photos[1].id = 2
    /\ sets(sessions["s1"]).set1.photos[10].id = 10
    /\ sets(sessions["s1"]).set2.photos = <<Photo(11), Photo(12)>>

(***************************************************************************)
(* The photo-helper service (backend/photo-helper/main.py): requests are   *)
(* served one after the other, each handler runs from its first line to    *)
(* its return or raise without an await.  One session, "s1", exists or is  *)
(* created; "s2" is the id of no session.                                  *)
(***************************************************************************)
MaxRequests == 2   \* requests served in one behaviour

\* PhotoSession(): the session create_session makes
PhotoSession ==
    [version |-> 1, mode |-> "track", layout_mode |-> "landscape",
     competition_name |-> "",
     track_sets |-> [set1 |-> PhotoSet("SP - TPX", <<>>),
                     set2 |-> PhotoSet("TPX - FP", <<>>)],
     turningpoint_sets |-> [set1 |-> PhotoSet("", <<>>), set2 |-> PhotoSet("", <<>>)]]

\* the numbers of photos in set1 of the session that is stored at the start
SessionCounts == {0, 9, 10}

\* an upload file: an image, a file over MAX_FILE_SIZE, a file whose
\* extension is not allowed, a file PIL cannot verify
FileKinds == {"image", "large", "text", "corrupt"}

\* the batches of an upload: one file, an image and a second file, a file
\* that is rejected and an image
Batches ==
    {<<file>> : file \in FileKinds}
        \cup {<<"image", file>> : file \in FileKinds}
        \cup {<<file, "image">> : file \in FileKinds \ {"image"}}

SetKeys == {"set1", "set2", "set3"}
PhotoIdsAsked == {1, 11, 21, 99}
IndicesAsked == {-1, 0, 8, 9, 10}

\* the requests: any for the session "s1", one of each route for "s2"
CreateRequests == IF disk = <<>> THEN {[session_id |-> "s1"]} ELSE {}
GetRequests == [session_id : {"s1", "s2"}]
UploadRequests ==
    [session_id : {"s1"}, set_key : SetKeys, files : Batches]
        \cup {[session_id |-> "s2", set_key |-> "set1", files |-> <<"image">>]}
CanvasRequests ==
    [session_id : {"s1"}, photo_id : PhotoIdsAsked, canvas_state : {"moved"}]
        \cup {[session_id |-> "s2", photo_id |-> 1, canvas_state |-> "moved"]}
DeleteRequests ==
    [session_id : {"s1"}, photo_id : PhotoIdsAsked]
        \cup {[session_id |-> "s2", photo_id |-> 1]}
TitleRequests ==
    [session_id : {"s1"}, set_key : SetKeys, title : {"T"}]
        \cup {[session_id |-> "s2", set_key |-> "set1", title |-> "T"]}
MoveRequests ==
    [session_id : {"s1"}, set_key : SetKeys,
     from_index : IndicesAsked, to_index : IndicesAsked]
        \cup {[session_id |-> "s2", set_key |-> "set1", from_index |-> 0, to_index |-> 1]}
ModeRequests ==
    [session_id : {"s1"}, mode : {"track", "turningpoint", "x"}]
        \cup {[session_id |-> "s2", mode |-> "track"]}
LayoutRequests ==
    [session_id : {"s1"}, layout_mode : {"landscape", "portrait", "x"}]
        \cup {[session_id |-> "s2", layout_mode |-> "portrait"]}
CompetitionRequests == [session_id : {"s1", "s2"}, competition_name : {"Cup"}]

\* no session was created yet, or the session "s1" was saved and is in
\* memory or on disk only; no set holds more photos than its layout allows
SessionInit ==
    /\ pc = "responded"
    /\ i = 0
    /\ \/ sessions = <<>> /\ disk = <<>> /\ photos_dir = {}
       \/ \E mode \in {"track", "turningpoint"}, layout_mode \in {"landscape", "portrait"},
             count \in SessionCounts :
             /\ count <= get_max_photos_per_set(layout_mode)
             /\ disk = [s \in {"s1"} |-> to_dict(StoredSession(mode, layout_mode, count))]
             /\ \/ sessions = [s \in {"s1"} |-> StoredSession(mode, layout_mode, count)]
                \/ sessions = <<>>
             /\ photos_dir = photo_ids(StoredSession(mode, layout_mode, count))
    /\ request = None
    /\ response = None
    /\ track_coords = <<>>
    /\ ClassifyIdle /\ BuildIdle /\ CorridorIdle /\ LocateIdle
    /\ NearestIdle /\ SortIdle /\ ParseIdle /\ RunIdle

\* the next request arrives at the handler of its route
Receive(route, requests) ==
    /\ pc = "responded"
    /\ i < MaxRequests
    /\ \E req \in requests : request' = req
    /\ response' = None
    /\ pc' = route
    /\ i' = i + 1
    /\ UNCHANGED <<classifyVars, buildVars, track_coords, corridorVars, locateVars,
                   nearestVars, tp_coords, parseVars, runVars, sessions, disk, photos_dir>>

SessionReceive ==
    \/ Receive("create", CreateRequests)
    \/ Receive("get", GetRequests)
    \/ Receive("upload", UploadRequests)
    \/ Receive("canvas", CanvasRequests)
    \/ Receive("delete", DeleteRequests)
    \/ Receive("title", TitleRequests)
    \/ Receive("reorder", MoveRequests)
    \/ Receive("mode", ModeRequests)
    \/ Receive("layout", LayoutRequests)
    \/ Receive("competition", CompetitionRequests)

\* session = load_session(session_id), once it is found
loaded_session == load_session(request.session_id)[request.session_id]

\* self.version += 1
version_bumped_Same(session) == session
version_bumped(session) == [session EXCEPT !.version = @ + 1]

\* raise HTTPException: nothing is saved
Raised(status, detail) ==
    RespondedWith(status, detail, load_session(request.session_id), disk, photos_dir)

\* save_session(session) and return
Saved(detail, session, photos_after) ==
    RespondedWith(200, detail,
                  [load_session(request.session_id) EXCEPT ![request.session_id] = session],
                  [disk EXCEPT ![request.session_id] = to_dict(session)],
                  photos_after)

\* create_session: PhotoSession() with a new id, save_session
CreateSession ==
    /\ pc = "create"
    /\ RespondedWith(200, "created",
                     [s \in DOMAIN sessions \cup {request.session_id} |->
                         IF s = request.session_id THEN PhotoSession ELSE sessions[s]],
                     [s \in DOMAIN disk \cup {request.session_id} |->
                         IF s = request.session_id THEN to_dict(PhotoSession) ELSE disk[s]],
                     photos_dir)

\* get_session
GetSession ==
    /\ pc = "get"
    /\ IF ~found(request.session_id) THEN Raised(404, "Session not found")
       ELSE RespondedWith(200, "session", load_session(request.session_id), disk, photos_dir)

\* str(uuid.uuid4()) of the file at position k of the batch of request
\* number i
uuid4(k) == 100 + 10 * i + k

\* PhotoSession.add_photo raises: the set is full
set_full(session, set_key) ==
    Len(sets(session)[set_key].photos) >= get_max_photos_per_set(session.layout_mode)

\* PhotoSession.add_photo, when the set is not full
add_photo(session, set_key, photo) ==
    version_bumped(with_photos(session, set_key,
                               Append(sets(session)[set_key].photos, photo)))

\* the loop of upload_photos over the files from position k on: the session
\* object as the loop leaves it, the status of the exception that ended it
\* (200: none), and the ids of the files written and not yet removed
RECURSIVE upload_loop(_, _, _, _)
upload_loop(session, set_key, files, k) ==
    IF k > Len(files) THEN [session |-> session, status |-> 200, written |-> {}]
    ELSE CASE files[k] = "large" -> [session |-> session, status |-> 413, written |-> {}]
           [] files[k] = "text" -> [session |-> session, status |-> 400, written |-> {}]
           [] files[k] = "corrupt" -> [session |-> session, status |-> 400, written |-> {}]
           [] files[k] = "image" /\ set_full(session, set_key) ->
                 [session |-> session, status |-> 400, written |-> {uuid4(k)}]
           [] OTHER ->
                 LET rest == upload_loop(add_photo(session, set_key, Photo(uuid4(k))),
                                         set_key, files, k + 1)
                 IN  [rest EXCEPT !.written = @ \cup {uuid4(k)}]

\* len(files) > remaining_slots
too_many_files(session, set_key, files) ==
    Len(files) > Max(0, get_max_photos_per_set(session.layout_mode)
                            - Len(sets(session)[set_key].photos))

\* upload_photos: on an exception of the loop the written files are removed
\* and the exception goes on, the session object staying as the loop left
\* it; otherwise save_session
UploadPhotos ==
    /\ pc = "upload"
    /\ IF ~found(request.session_id) THEN Raised(404, "Session not found")
       ELSE IF request.set_key \notin {"set1", "set2"} THEN Raised(400, "Invalid set_key")
       ELSE IF too_many_files(loaded_session, request.set_key, request.files)
         THEN Raised(400, "Too many photos")
       ELSE LET batch == upload_loop(loaded_session, request.set_key, request.files, 1)
            IN  IF batch.status # 200
                  THEN RespondedWith(batch.status, "rejected",
                                     [load_session(request.session_id)
                                          EXCEPT ![request.session_id] = batch.session],
                                     disk, photos_dir)
                ELSE Saved("Uploaded", batch.session, photos_dir \cup batch.written)

\* the key of the first of set1, set2 of the current mode that holds the
\* photo, "" if none does
set_of_photo(session, photo_id) ==
    IF photo_id \in ids_of(sets(session).set1.photos) THEN "set1"
    ELSE IF photo_id \in ids_of(sets(session).set2.photos) THEN "set2"
    ELSE ""

\* photo["canvasState"].update(canvas_state) on the photo of that id
canvas_updated(photos, photo_id, canvas_state) ==
    [k \in 1..Len(photos) |->
        IF photos[k].id = photo_id THEN [photos[k] EXCEPT !.canvasState = canvas_state]
        ELSE photos[k]]

\* del photos[i] for the photo of that id
photo_removed(photos, photo_id) ==
    SelectSeq(photos, LAMBDA photo : photo.id # photo_id)

\* update_photo_canvas_state
UpdatePhotoCanvasState ==
    /\ pc = "canvas"
    /\ IF ~found(request.session_id) THEN Raised(404, "Session not found")
       ELSE LET set_key == set_of_photo(loaded_session, request.photo_id)
            IN  IF set_key = "" THEN Raised(404, "Photo not found")
                ELSE Saved("Canvas state updated",
                           version_bumped(
                               with_photos(loaded_session, set_key,
                                           canvas_updated(sets(loaded_session)[set_key].photos,
                                                          request.photo_id,
                                                          request.canvas_state))),
                           photos_dir)

\* delete_photo
DeletePhoto ==
    /\ pc = "delete"
    /\ IF ~found(request.session_id) THEN Raised(404, "Session not found")
       ELSE LET set_key == set_of_photo(loaded_session, request.photo_id)
            IN  IF set_key = "" THEN Raised(404, "Photo not found")
                ELSE Saved("Photo deleted",
                           version_bumped(
                               with_photos(loaded_session, set_key,
                                           photo_removed(sets(loaded_session)[set_key].photos,
                                                         request.photo_id))),
                           photos_dir \ {request.photo_id})

\* session.sets[set_key]["title"] = title
with_title(session, set_key, title) ==
    IF session.mode = "turningpoint"
      THEN [session EXCEPT !.turningpoint_sets[set_key].title = title]
    ELSE [session EXCEPT !.track_sets[set_key].title = title]

\* update_set_title
UpdateSetTitle ==
    /\ pc = "title"
    /\ IF ~found(request.session_id) THEN Raised(404, "Session not found")
       ELSE IF request.set_key \notin {"set1", "set2"} THEN Raised(400, "Invalid set_key")
       ELSE Saved("Title updated",
                  version_bumped(with_title(loaded_session, request.set_key, request.title)),
                  photos_dir)

\* update_session_mode that assigns the mode before it validates it
UpdateSessionMode_AssignsFirst ==
    /\ pc = "mode"
    /\ IF ~found(request.session_id) THEN Raised(404, "Session not found")
       ELSE IF request.mode \notin {"track", "turningpoint"}
         THEN RespondedWith(400, "Invalid mode",
                            [load_session(request.session_id) EXCEPT
                                ![request.session_id].mode = request.mode],
                            disk, photos_dir)
       ELSE Saved("Session mode updated",
                  version_bumped([loaded_session EXCEPT !.mode = request.mode]),
                  photos_dir)

\* update_session_mode
UpdateSessionMode ==
    /\ pc = "mode"
    /\ IF ~found(request.session_id) THEN Raised(404, "Session not found")
       ELSE IF request.mode \notin {"track", "turningpoint"} THEN Raised(400, "Invalid mode")
       ELSE Saved("Session mode updated",
                  version_bumped([loaded_session EXCEPT !.mode = request.mode]),
                  photos_dir)

\* update_layout_mode
UpdateLayoutMode ==
    /\ pc = "layout"
    /\ IF ~found(request.session_id) THEN Raised(404, "Session not found")
       ELSE IF request.layout_mode \notin {"landscape", "portrait"}
         THEN Raised(400, "Invalid layout mode")
       ELSE Saved("Session layout mode updated",
                  version_bumped([loaded_session EXCEPT !.layout_mode = request.layout_mode]),
                  photos_dir)

\* update_competition_name
UpdateCompetitionName ==
    /\ pc = "competition"
    /\ IF ~found(request.session_id) THEN Raised(404, "Session not found")
       ELSE Saved("Competition name updated",
                  version_bumped([loaded_session EXCEPT
                                     !.competition_name = request.competition_name]),
                  photos_dir)

SessionNext ==
    \/ SessionReceive
    \/ CreateSession
    \/ GetSession
    \/ UploadPhotos
    \/ UpdatePhotoCanvasState
    \/ DeletePhoto
    \/ UpdateSetTitle
    \/ ReorderNotFound
    \/ ReorderInvalidSetKey
    \/ ReorderInvalidIndices
    \/ ReorderNoChange
    \/ ReorderEmptySource
    \/ ReorderMove
    \/ UpdateSessionMode
    \/ UpdateLayoutMode
    \/ UpdateCompetitionName

SpecSession == SessionInit /\ [][SessionNext]_vars

(***************************************************************************)
(* Properties of the photo-helper service                                  *)
(***************************************************************************)
\* a handler has served the request
HandlerStep == pc # "responded" /\ pc' = "responded"

\* the session of the request after the handler
session_after == sessions'[request.session_id]

\* an upload to an existing session has been rejected
UploadRejected ==
    /\ pc = "upload"
    /\ HandlerStep
    /\ found(request.session_id)
    /\ response'.status # 200

\* the photos that the files of the request become
batch_photos == [k \in 1..Len(request.files) |-> Photo(uuid4(k))]

C21_Step ==
    /\ UploadRejected =>
          /\ session_after = loaded_session
          /\ disk' = disk
          /\ photos_dir' = photos_dir
    /\ (pc = "upload" /\ HandlerStep /\ response'.status = 200) =>
          /\ sets(session_after)[request.set_key].photos
                 = sets(loaded_session)[request.set_key].photos \o batch_photos
          /\ disk'[request.session_id] = to_dict(session_after)
          /\ photos_dir' = photos_dir \cup ids_of(batch_photos)

\* C21 as stated: an upload that is rejected leaves the session, in memory
\* and on disk, and the photo files as they were before the request; an
\* upload that is accepted adds every file of the batch.
C21_AllOrNothing == [][C21_Step]_vars

\* the rejections before the loop alone: unknown session is covered by the
\* step above, here an invalid set key or too many files
C21_PreflightStep ==
    (/\ UploadRejected
     /\ \/ request.set_key \notin {"set1", "set2"}
        \/ too_many_files(loaded_session, request.set_key, request.files))
    => /\ session_after = loaded_session
       /\ disk' = disk
       /\ photos_dir' = photos_dir
C21_Preflight == [][C21_PreflightStep]_vars

\* the sets of the mode the session is not in
other_mode_sets(session, mode) ==
    IF mode = "turningpoint" THEN session.track_sets ELSE session.turningpoint_sets

C26_Step ==
    (HandlerStep /\ found(request.session_id)) =>
        /\ pc \in {"upload", "delete", "reorder", "canvas", "title"} =>
              /\ session_after.mode = loaded_session.mode
              /\ other_mode_sets(session_after, loaded_session.mode)
                     = other_mode_sets(loaded_session, loaded_session.mode)
        /\ pc = "mode" =>
              /\ session_after.track_sets = loaded_session.track_sets
              /\ session_after.turningpoint_sets = loaded_session.turningpoint_sets

\* C26: an upload, delete, reorder, canvas-state or title request leaves
\* the sets of the mode the session is not in as they were, and a mode
\* request leaves the sets of both modes as they were.
C26_SeparateSets == [][C26_Step]_vars

\* the session was switched to turningpoint mode and its only turningpoint
\* photo deleted: the track sets hold their 9 and 2 photos
C26_Witness ==
    /\ pc = "responded"
    /\ i = 2
    /\ response = Answer(200, "Photo deleted")
    /\ request.photo_id = 21
    /\ sessions["s1"].mode = "turningpoint"
    /\ sessions["s1"].turningpoint_sets.set1.photos = <<>>
    /\ Len(sessions["s1"].track_sets.set1.photos) = 9
    /\ sessions["s1"].track_sets.set2.photos = <<Photo(11), Photo(12)>>

\* 9 photos in landscape layout, 10 in portrait layout
Capacity(layout_mode) == IF layout_mode = "portrait" THEN 10 ELSE 9

\* the sets of both modes of a session
AllSets(session) ==
    <<session.track_sets.set1, session.track_sets.set2,
      session.turningpoint_sets.set1, session.turningpoint_sets.set2>>

\* C28 as stated: every set of the active mode of every session holds at
\* most get_max_photos_per_set(layout_mode) photos.
C28_CapacityInvariant ==
    \A s \in DOMAIN sessions : \A k \in {"set1", "set2"} :
        Len(sets(sessions[s])[k].photos) <= Capacity(sessions[s].layout_mode)

C28_AtMostTen ==
    \A s \in DOMAIN sessions : \A k \in 1..4 :
        Len(AllSets(sessions[s])[k].photos) <= 10

C28_Step ==
    (HandlerStep /\ found(request.session_id)) =>
        \A k \in 1..4 :
            LET before == Len(AllSets(loaded_session)[k].photos)
                after == Len(AllSets(session_after)[k].photos)
            IN  /\ after <= Max(before, Capacity(session_after.layout_mode))
                /\ (pc = "layout") => after = before

\* C28, amended: no set of a session ever holds more than 10 photos, no
\* request makes a set grow beyond the maximum of the layout, and a layout
\* request keeps every photo, so that a set of 10 photos is over the
\* maximum of 9 once the layout is landscape.
C28_NoGrowthBeyondCapacity == []C28_AtMostTen /\ [][C28_Step]_vars

\* a set of 10 photos in landscape layout, and an upload to it rejected
C28_Witness ==
    /\ pc = "responded"
    /\ i = 2
    /\ response = Answer(400, "Too many photos")
    /\ request.set_key = "set1"
    /\ sessions["s1"].layout_mode = "landscape"
    /\ Len(sets(sessions["s1"]).set1.photos) = 10

C29_Step ==
    /\ (pc = "create" /\ HandlerStep) =>
          /\ session_after.version = 1
          /\ disk'[request.session_id].version = 1
    /\ (HandlerStep /\ pc # "create" /\ found(request.session_id)) =>
          /\ session_after.version >= loaded_session.version
          /\ disk'[request.session_id].version >= disk[request.session_id].version
          /\ (/\ response'.status = 200
              /\ \/ pc \in {"upload", "delete", "canvas", "title", "mode", "layout",
                            "competition"}
                 \/ pc = "reorder" /\ request.from_index # request.to_index)
             => /\ session_after.version > loaded_session.version
                /\ disk'[request.session_id].version > disk[request.session_id].version
                /\ disk'[request.session_id].version = session_after.version
          /\ (\/ pc = "get"
              \/ pc = "reorder" /\ response'.status = 200
                               /\ request.from_index = request.to_index)
             => /\ session_after.version = loaded_session.version
                /\ disk'[request.session_id].version = disk[request.session_id].version

\* C29: a created session has version 1; no request lowers the version, in
\* memory or on disk; every upload, delete, canvas-state, title, mode,
\* layout or competition request that succeeds, and every reorder that
\* succeeds with from_index # to_index, raises it; a reorder with
\* from_index = to_index and a read leave it as it was.
C29_VersionGrows == [][C29_Step]_vars

\* a session was created and its title updated: version 2
C29_Witness ==
    /\ pc = "responded"
    /\ i = 2
    /\ response = Answer(200, "Title updated")
    /\ sessions["s1"].version = 2
    /\ disk["s1"].version = 2
    /\ sessions["s1"].track_sets.set1.title = "T"
    /\ sessions["s1"].track_sets.set1.photos = <<>>

C30_Step ==
    (HandlerStep /\ pc \notin {"upload", "create"} /\ response'.status # 200) =>
        /\ disk' = disk
        /\ IF found(request.session_id) THEN session_after = loaded_session
           ELSE sessions' = sessions

\* C30: a request other than an upload that is rejected leaves the session
\* (sets, titles, mode, layout mode, version) in memory, and every session
\* file, as they were.
C30_RejectedChangesNothing == [][C30_Step]_vars

\* a mode that is no mode was rejected, the session is the one on disk
C30_Witness ==
    /\ pc = "responded"
    /\ i = 2
    /\ response = Answer(400, "Invalid mode")
    /\ request.mode = "x"
    /\ sessions["s1"].mode \in {"track", "turningpoint"}
    /\ to_dict(sessions["s1"]) = disk["s1"]

====
